---- MODULE Spec2Model ----
(***************************************************************************)
(* Model of the NOVA SAP OData MCP server core:                            *)
(*   - the domain/tier classifier (config/domain-tier-config.ts),          *)
(*   - the hybrid search of the tool registry (discover-sap-data),         *)
(*   - the lazy metadata loading of get-entity-metadata,                   *)
(*     execute-sap-operation and the metadata resource.                    *)
(* Strings are TLA+ strings; offsets into them are 0-based as in JS.       *)
(***************************************************************************)
EXTENDS Integers, Sequences, FiniteSets, TLC

VARIABLES
    discoveredServices, \* the classified catalog the registries search and rank
    lastIndex,      \* RegExp.lastIndex of every pattern object of DOMAIN_CONFIGS
    classifyLog,    \* history: first classification returned for each (id, title)
    classifyOut,    \* the last classifyService call: its arguments and result
    search,         \* the discover-sap-data call in progress or finished
    metadata,       \* service.metadata of the shared catalog records
    metadataCache,  \* metadataCache of every tool registry (one per session)
    call,           \* the get-entity-metadata / execute-sap-operation / resource calls
    fetches,        \* history: fetchServiceMetadata invocations and outcomes
    started,        \* history: the number of metadata, operation and resource calls begun
    startup,        \* the callback of app.listen: "listening" up to the end of its await
                    \* of discoverCatalog, "ready" after the assignment of its result
    sessions,       \* the sessions of the HTTP server: for each, the array its registry
                    \* holds as catalogServices ("initial": the [] discoveredServices is
                    \* declared with, "discovered": the array discoverCatalog resolved to)
    embeddings      \* the EmbeddingService: its index, the snapshot file, its indexEntities call

vars == <<discoveredServices, lastIndex, classifyLog, classifyOut, search, metadata,
          metadataCache, call, fetches, started, startup, sessions, embeddings>>

(***************************************************************************)
(* Strings                                                                 *)
(***************************************************************************)
LowerLetters == "abcdefghijklmnopqrstuvwxyz"
UpperLetters == "ABCDEFGHIJKLMNOPQRSTUVWXYZ"

CharAt(s, i) == IF i < Len(s) THEN SubSeq(s, i + 1, i + 1) ELSE ""

\* the case mappings of the ASCII letters, as tables
UpperOf == [c \in {CharAt(LowerLetters, i) : i \in 0..25} |->
              CharAt(UpperLetters, CHOOSE i \in 0..25 : CharAt(LowerLetters, i) = c)]
LowerOf == [c \in {CharAt(UpperLetters, i) : i \in 0..25} |->
              CharAt(LowerLetters, CHOOSE i \in 0..25 : CharAt(UpperLetters, i) = c)]

\* the characters lo..hi-1 of s, each mapped by the table (halving keeps the
\* evaluation shallow on long texts)
RECURSIVE MapChars(_, _, _, _)
MapChars(s, lo, hi, table) ==
    IF hi <= lo THEN ""
    ELSE IF hi = lo + 1
    THEN LET c == CharAt(s, lo) IN IF c \in DOMAIN table THEN table[c] ELSE c
    ELSE LET mid == (lo + hi) \div 2
         IN  MapChars(s, lo, mid, table) \o MapChars(s, mid, hi, table)

toUpperCase(s) == MapChars(s, 0, Len(s), UpperOf)
toLowerCase(s) == MapChars(s, 0, Len(s), LowerOf)

\* offsets p >= lo at which lit occurs in s
Occurrences(s, lit, lo) ==
    {p \in lo..(Len(s) - Len(lit)) : SubSeq(s, p + 1, p + Len(lit)) = lit}

\* String.prototype.includes
includes(s, q) == Occurrences(s, q, 0) # {}

SetMin(S) == CHOOSE x \in S : \A y \in S : x <= y
SetMax(S) == CHOOSE x \in S : \A y \in S : x >= y

(***************************************************************************)
(* Regular expressions of DOMAIN_CONFIGS.  Every pattern of the            *)
(* configuration has the shape  ^? Z?? lit1 (.* lit2)? $?  with the flag   *)
(* i; a trailing optional atom (LIST_V?\d?, POSTING_RULES?) never decides  *)
(* test() and is dropped from the literal.                                 *)
(*   key   : the pattern object (its place in the configuration)           *)
(*   start : the pattern begins with ^                                     *)
(*   optZ  : ^ is followed by Z?                                           *)
(*   lits  : the literals, joined by .*                                    *)
(*   end   : the pattern ends with $                                       *)
(***************************************************************************)
Re(key, start, optZ, lits, end) ==
    [key |-> key, start |-> start, optZ |-> optZ, lits |-> lits, end |-> end]

Prefix(key, lit)   == Re(key, TRUE, TRUE, <<lit>>, FALSE)
Anchored(key, lit) == Re(key, TRUE, FALSE, <<lit>>, FALSE)
Contains(key, lit) == Re(key, FALSE, FALSE, <<lit>>, FALSE)
Suffix(key, lit)   == Re(key, FALSE, FALSE, <<lit>>, TRUE)

(***************************************************************************)
(* RegExp.prototype.test.  Without the g flag the search starts at offset  *)
(* 0 and lastIndex is left alone; with it the search starts at lastIndex   *)
(* and lastIndex becomes the end of the match, or 0 when there is none.    *)
(***************************************************************************)
\* the flags of the patterns of DOMAIN_CONFIGS: all are /.../i
RegexGlobalFlagSet == TRUE
RegexGlobalFlag == FALSE

\* offsets at which the first literal may sit for a search starting at `from`
FirstStarts(re, u, from) ==
    IF re.start
    THEN IF from > 0 THEN {}
         ELSE {p \in {0} \cup (IF re.optZ /\ CharAt(u, 0) = "Z" THEN {1} ELSE {}) :
                 /\ p + Len(re.lits[1]) <= Len(u)
                 /\ SubSeq(u, p + 1, p + Len(re.lits[1])) = re.lits[1]}
    ELSE Occurrences(u, re.lits[1], from)

\* offsets at which a match of the literals 1..k may end
RECURSIVE MatchEnds(_, _, _, _)
MatchEnds(re, u, from, k) ==
    IF k = 1
    THEN {p + Len(re.lits[1]) : p \in FirstStarts(re, u, from)}
    ELSE LET before == MatchEnds(re, u, from, k - 1)
         IN  IF before = {} THEN {}
             ELSE {p + Len(re.lits[k]) : p \in Occurrences(u, re.lits[k], SetMin(before))}

\* u is the subject in upper case: the flag i, the literals being upper case
RegexEnds(re, u, from) ==
    LET ends == MatchEnds(re, u, from, Len(re.lits))
    IN  IF re.end THEN ends \cap {Len(u)} ELSE ends

\* the offset at which test() starts its search
StartOffset(re, li) == IF RegexGlobalFlag THEN li[re.key] ELSE 0

\* [hit, li]: what test() returns and lastIndex of all patterns after it, for
\* the set of offsets at which a match may end
RegexResult(re, li, ends) ==
    [hit |-> ends # {},
     li  |-> IF ~RegexGlobalFlag THEN li
             ELSE IF ends = {} THEN [li EXCEPT ![re.key] = 0]
             ELSE [li EXCEPT ![re.key] =
                      IF Len(re.lits) = 1 THEN SetMin(ends) ELSE SetMax(ends)]]

\* re.test on the subject whose upper case is u
RegexTest(re, u, li) == RegexResult(re, li, RegexEnds(re, u, StartOffset(re, li)))

(***************************************************************************)
(* DOMAIN_CONFIGS                                                          *)
(***************************************************************************)
AR_CONFIG ==
    [name |-> "AR",
     displayName |-> "Accounts Receivable",
     prefixes |-> <<
        Prefix("AR.p1", "FAR_"),
        Prefix("AR.p2", "FIAR_"),
        Contains("AR.p3", "RECEIVABLE"),
        Re("AR.p4", TRUE, TRUE, <<"UI_", "RECEIVABLE">>, FALSE),
        Prefix("AR.p5", "UI_COLL"),
        Prefix("AR.p6", "UDMO_COLLECTION") >>,
     tier1Keywords |-> <<
        Contains("AR.t1.1", "CUSTOMER_LINE_ITEMS"),
        Contains("AR.t1.2", "PAYMENT_POST"),
        Contains("AR.t1.3", "MANAGE"),
        Contains("AR.t1.4", "CREATE"),
        Contains("AR.t1.5", "WORKLIST"),
        Contains("AR.t1.6", "DOWN_PAYMENT"),
        Contains("AR.t1.7", "POSTING_RULE"),
        Contains("AR.t1.8", "INCOMING_PAYT") >>,
     tier2Keywords |-> <<
        Contains("AR.t2.1", "DISPLAY"),
        Contains("AR.t2.2", "HISTORY"),
        Contains("AR.t2.3", "LIST_"),
        Contains("AR.t2.4", "BALANCES"),
        Contains("AR.t2.5", "CORRESPONDENCE"),
        Contains("AR.t2.6", "INSPECT"),
        Contains("AR.t2.7", "VALUATION"),
        Contains("AR.t2.8", "RESERVE") >>,
     tier3Keywords |-> <<
        Suffix("AR.t3.1", "_CDS"),
        Contains("AR.t3.2", "_OVP_"),
        Contains("AR.t3.3", "PROCFLOW"),
        Contains("AR.t3.4", "_FS_SRV"),
        Contains("AR.t3.5", "OVERVIEW"),
        Contains("AR.t3.6", "TRACKER"),
        Contains("AR.t3.7", "BREAKDOWN"),
        Contains("AR.t3.8", "AGING"),
        Contains("AR.t3.9", "PROGRESS") >>,
     excludePatterns |-> << Anchored("AR.x1", "RAR_") >>,
     priorityServices |-> << "ZFAR_CUSTOMER_LINE_ITEMS_0001" >>]

SD_CONFIG ==
    [name |-> "SD",
     displayName |-> "Sales & Distribution",
     prefixes |-> <<
        Prefix("SD.p1", "SD_"),
        Contains("SD.p2", "BILLING"),
        Contains("SD.p3", "INVOICE"),
        Re("SD.p4", FALSE, FALSE, <<"CREDIT", "MEMO">>, FALSE),
        Re("SD.p5", FALSE, FALSE, <<"DEBIT", "MEMO">>, FALSE) >>,
     tier1Keywords |-> <<
        Contains("SD.t1.1", "MANAGE"),
        Contains("SD.t1.2", "CREATE"),
        Contains("SD.t1.3", "_WL_SRV") >>,
     tier2Keywords |-> <<
        Contains("SD.t2.1", "DISPLAY"),
        Contains("SD.t2.2", "LIST"),
        Contains("SD.t2.3", "_OP_SRV") >>,
     tier3Keywords |-> <<
        Suffix("SD.t3.1", "_CDS"),
        Contains("SD.t3.2", "PROCFLOW"),
        Contains("SD.t3.3", "_FS_SRV") >>,
     excludePatterns |-> << >>,
     priorityServices |-> << "ZSD_CUSTOMER_INVOICES_MANAGE_0001",
                             "ZSD_CUSTOMER_INVOICES_CREATE_0001" >>]

FI_CONFIG ==
    [name |-> "FI",
     displayName |-> "Finance",
     prefixes |-> <<
        Prefix("FI.p1", "FAC_"),
        Prefix("FI.p2", "FI_"),
        Contains("FI.p3", "DUNNING"),
        Contains("FI.p4", "COLLECTION"),
        Re("FI.p5", FALSE, FALSE, <<"FINANCIAL", "DOC">>, FALSE) >>,
     tier1Keywords |-> <<
        Contains("FI.t1.1", "MANAGE"),
        Contains("FI.t1.2", "POST"),
        Contains("FI.t1.3", "PROPOSAL"),
        Contains("FI.t1.4", "EXCEPTION") >>,
     tier2Keywords |-> <<
        Contains("FI.t2.1", "DISPLAY"),
        Contains("FI.t2.2", "HISTORY"),
        Contains("FI.t2.3", "REVERSAL") >>,
     tier3Keywords |-> <<
        Suffix("FI.t3.1", "_CDS"),
        Contains("FI.t3.2", "_OVP_"),
        Contains("FI.t3.3", "DISTRIBUTION") >>,
     excludePatterns |-> << >>,
     priorityServices |-> << >>]

DOMAIN_CONFIGS == << AR_CONFIG, SD_CONFIG, FI_CONFIG >>

\* the pattern objects of DOMAIN_CONFIGS, by their keys
RegexKeys ==
    LET Keys(patterns) == {patterns[i].key : i \in DOMAIN patterns}
    IN  UNION {Keys(DOMAIN_CONFIGS[d].prefixes) \cup Keys(DOMAIN_CONFIGS[d].tier1Keywords)
                 \cup Keys(DOMAIN_CONFIGS[d].tier2Keywords)
                 \cup Keys(DOMAIN_CONFIGS[d].tier3Keywords)
                 \cup Keys(DOMAIN_CONFIGS[d].excludePatterns) : d \in DOMAIN DOMAIN_CONFIGS}

\* lastIndex of a freshly constructed RegExp
FreshLastIndex == [k \in RegexKeys |-> 0]

PRIORITY_SERVICE == 1
TIER_1 == 10
TIER_2 == 20
TIER_3 == 30
UNCLASSIFIED == 100

NoDomain == "null"

(***************************************************************************)
(* classifyService.  Every operator threads li, the lastIndex of the       *)
(* pattern objects, through the test() calls in the order the code makes   *)
(* them, and returns it next to its result.                                *)
(***************************************************************************)
\* patterns.some(pattern => pattern.test(value)), from the i-th pattern on;
\* r is the result of the test of the i-th pattern
RECURSIVE MatchesAnyFrom(_, _, _, _)
MatchesAnyNext(u, patterns, i, r) ==
    IF r.hit THEN r ELSE MatchesAnyFrom(u, patterns, i + 1, r.li)
MatchesAnyFrom(u, patterns, i, li) ==
    IF i > Len(patterns) THEN [hit |-> FALSE, li |-> li]
    ELSE MatchesAnyNext(u, patterns, i, RegexTest(patterns[i], u, li))

\* the subject is folded to upper case once for all the patterns
matchesAny(value, patterns, li) == MatchesAnyFrom(toUpperCase(value), patterns, 1, li)

\* determineTier after the tier-2 keywords missed (t3: the tier-3 test); the
\* tier is 1 when no keyword of any tier matches
TierAfter2Lowest(t3) == [tier |-> 3, li |-> t3.li]
TierAfter2(t3) == [tier |-> IF t3.hit THEN 3 ELSE 1, li |-> t3.li]
\* determineTier after the tier-1 keywords missed (t2: the tier-2 test)
TierAfter1(searchText, config, t2) ==
    IF t2.hit THEN [tier |-> 2, li |-> t2.li]
    ELSE TierAfter2(matchesAny(searchText, config.tier3Keywords, t2.li))
\* determineTier on searchText = `${serviceId} ${title}` (t1: the tier-1 test)
TierOf(searchText, config, t1) ==
    IF t1.hit THEN [tier |-> 1, li |-> t1.li]
    ELSE TierAfter1(searchText, config, matchesAny(searchText, config.tier2Keywords, t1.li))

determineTier(serviceId, title, config, li) ==
    TierOf(serviceId \o " " \o title, config,
           matchesAny(serviceId \o " " \o title, config.tier1Keywords, li))

Classification(domain, tier, priority, isPriorityService) ==
    [domain |-> domain, tier |-> tier, priority |-> priority,
     isPriorityService |-> isPriorityService]

\* if (matchesAny(upperServiceId, config.excludePatterns)) continue;
ExcludedByNever(upperServiceId, config, li) == [hit |-> FALSE, li |-> li]
ExcludedBy(upperServiceId, config, li) ==
    matchesAny(upperServiceId, config.excludePatterns, li)

\* matchesAny(upperServiceId, config.prefixes) || matchesAny(title, config.prefixes)
MatchesTitle(title, config, byId) ==
    IF byId.hit THEN byId ELSE matchesAny(title, config.prefixes, byId.li)
MatchesDomain(upperServiceId, title, config, li) ==
    MatchesTitle(title, config, matchesAny(upperServiceId, config.prefixes, li))

\* config.priorityServices.some(ps => ps.toUpperCase() === upperServiceId)
IsPriorityIn(upperServiceId, config) ==
    \E i \in DOMAIN config.priorityServices :
        toUpperCase(config.priorityServices[i]) = upperServiceId

\* the classification of a non-priority service of tier t.tier
Tiered(config, t) ==
    [c |-> Classification(config.name, t.tier,
                          IF t.tier = 1 THEN TIER_1
                          ELSE IF t.tier = 2 THEN TIER_2 ELSE TIER_3,
                          FALSE),
     li |-> t.li]

\* the body of the loop for a domain whose prefixes matched (the variant
\* compares the id as given with the priority list)
ClassifyInCaseSensitive(serviceId, title, config, li) ==
    IF IsPriorityIn(serviceId, config)
    THEN [c |-> Classification(config.name, 1, PRIORITY_SERVICE, TRUE), li |-> li]
    ELSE Tiered(config, determineTier(serviceId, title, config, li))
ClassifyIn(serviceId, title, config, li) ==
    IF IsPriorityIn(toUpperCase(serviceId), config)
    THEN [c |-> Classification(config.name, 1, PRIORITY_SERVICE, TRUE), li |-> li]
    ELSE Tiered(config, determineTier(serviceId, title, config, li))

\* for (const config of DOMAIN_CONFIGS) { ... }, from the d-th domain on;
\* x is the result of the exclusion test, m of the inclusion test
RECURSIVE ClassifyFrom(_, _, _, _)
ClassifyMatchedLast(serviceId, title, d, m) ==
    IF m.hit /\ ClassifyFrom(serviceId, title, d + 1, m.li).c.domain = NoDomain
    THEN ClassifyIn(serviceId, title, DOMAIN_CONFIGS[d], m.li)
    ELSE ClassifyFrom(serviceId, title, d + 1, m.li)
ClassifyMatched(serviceId, title, d, m) ==
    IF m.hit THEN ClassifyIn(serviceId, title, DOMAIN_CONFIGS[d], m.li)
    ELSE ClassifyFrom(serviceId, title, d + 1, m.li)
ClassifyExcluded(serviceId, title, d, x) ==
    IF x.hit THEN ClassifyFrom(serviceId, title, d + 1, x.li)
    ELSE ClassifyMatched(serviceId, title, d,
            MatchesDomain(toUpperCase(serviceId), title, DOMAIN_CONFIGS[d], x.li))
ClassifyFrom(serviceId, title, d, li) ==
    IF d > Len(DOMAIN_CONFIGS)
    THEN [c |-> Classification(NoDomain, 0, UNCLASSIFIED, FALSE), li |-> li]
    ELSE ClassifyExcluded(serviceId, title, d,
            ExcludedBy(toUpperCase(serviceId), DOMAIN_CONFIGS[d], li))

\* [c, li]: the classification and lastIndex of all patterns after the call
classifyService(serviceId, title, li) == ClassifyFrom(serviceId, title, 1, li)

\* DOMAIN_CONFIGS.some(config => matchesAny(upperServiceId, config.excludePatterns))
RECURSIVE IsExcludedFrom(_, _, _)
IsExcludedNext(upperServiceId, d, x) ==
    IF x.hit THEN x ELSE IsExcludedFrom(upperServiceId, d + 1, x.li)
IsExcludedFrom(upperServiceId, d, li) ==
    IF d > Len(DOMAIN_CONFIGS) THEN [hit |-> FALSE, li |-> li]
    ELSE IsExcludedNext(upperServiceId, d,
            matchesAny(upperServiceId, DOMAIN_CONFIGS[d].excludePatterns, li))

isExcludedService(serviceId, li) == IsExcludedFrom(toUpperCase(serviceId), 1, li)

(***************************************************************************)
(* The catalog: the V2 catalog feed, parsed, classified and filtered.      *)
(* ID is the key of the feed's ServiceCollection, so ids are distinct.     *)
(* "" stands for a property the feed leaves out.                           *)
(***************************************************************************)
V2Service(ID, Title, Description) ==
    [ID |-> ID, Title |-> Title, Description |-> Description]

CatalogFeed == <<
    V2Service("ZFAR_BALANCES_V2_SRV_0001", "Customer Balances", "Display customer balances"),
    V2Service("ZAPI_BUSINESS_PARTNER_0001", "Business Partner", ""),
    V2Service("ZFAR_PAYMENT_POST_SRV_0001", "Post Incoming Payments", "Post customer payments"),
    V2Service("RAR_BILLING_SRV", "FAR_ Receivables Billing", "Revenue accounting"),
    V2Service("ZUI_COLLECTIONS_EMAIL_0001", "Collections Email", "Send collection emails"),
    V2Service("ZFAR_CUSTOMER_LINE_ITEMS_0001", "Customer Line Items", "customer line items (aka fbl5n)"),
    V2Service("ZSD_CUSTOMER_INVOICES_MANAGE_0001", "", "Manage customer invoices"),
    V2Service("ZFAR_AR_OVP_SRV_0001", "AR Overview Metrics", "Overview page") >>

\* services.push({id, title: Title || ID, description: Description || `OData service ${ID}`, ...})
parseV2CatalogResponse(results) ==
    [i \in DOMAIN results |->
        [id |-> results[i].ID,
         title |-> IF results[i].Title # "" THEN results[i].Title ELSE results[i].ID,
         description |-> IF results[i].Description # "" THEN results[i].Description
                         ELSE "OData service " \o results[i].ID]]

\* {...service, domain, tier, priority, isPriorityService}
Tagged(service, classification) ==
    [id |-> service.id,
     title |-> service.title,
     description |-> service.description,
     domain |-> classification.domain,
     tier |-> classification.tier,
     priority |-> classification.priority,
     isPriorityService |-> classification.isPriorityService]

\* services.map(tag).filter(service => !isExcludedService(service.id)) (the
\* variant keeps every tagged service)
TagAndFilterKeepAll(services) ==
    [i \in DOMAIN services |->
        Tagged(services[i],
               classifyService(services[i].id, services[i].title, FreshLastIndex).c)]
TagAndFilter(services) ==
    LET NotExcluded(service) == ~isExcludedService(service.id, FreshLastIndex).hit
    IN  SelectSeq([i \in DOMAIN services |->
                      Tagged(services[i],
                             classifyService(services[i].id, services[i].title,
                                             FreshLastIndex).c)],
                  NotExcluded)

\* the services tagged with their classification, the excluded ones dropped
discoverCatalog(feed) == TagAndFilter(parseV2CatalogResponse(feed))

\* this.catalogServices.find(s => s.id === serviceId)
FindService(serviceId) ==
    discoveredServices[CHOOSE i \in DOMAIN discoveredServices :
                          discoveredServices[i].id = serviceId]

(***************************************************************************)
(* SERVICE_HINTS (the entries of the services of the catalog above);       *)
(* tcode "" stands for a hint without tcode.                               *)
(***************************************************************************)
Hint(label, useFor, entities, tcode) ==
    [label |-> label, useFor |-> useFor, entities |-> entities, tcode |-> tcode]

SERVICE_HINTS ==
    ("ZFAR_CUSTOMER_LINE_ITEMS_0001" :> Hint(
        "Customer Line Items (FBL5N)",
        "View INDIVIDUAL customer invoices, line items, open items list, cleared items, document details, specific invoice lookup, set payment blocks. Use this for item-level details NOT for aggregate balances/totals.",
        <<"Item", "UpdatableItem", "Customer">>, "FBL5N"))
    @@ ("ZFAR_PAYMENT_POST_SRV_0001" :> Hint(
        "Post Incoming Payments (F-28)",
        "Post customer payments, cash receipts, payment on account, clear open items",
        <<"Payment", "PaymentItem">>, "F-28"))
    @@ ("ZUI_COLLECTIONS_EMAIL_0001" :> Hint(
        "Collections Email",
        "Send collection emails to customers, track email history",
        <<"CollectionEmail">>, ""))
    @@ ("ZFAR_BALANCES_V2_SRV_0001" :> Hint(
        "Customer Balances (FD10N)",
        "Show customer BALANCE, total balance, account balance summary, aggregate amounts owed by customer per fiscal year. Use this for \"show balance\" or \"what is the balance\" queries, NOT for individual line items.",
        <<"CustomerBalanceSet", "BalanceComparisonSet", "SpecialGLBalanceSet">>, "FD10N"))
    @@ ("ZFAR_AR_OVP_SRV_0001" :> Hint(
        "AR Overview Page",
        "Accounts receivable dashboard, AR manager overview, key metrics and charts",
        <<"AROverview", "ARMetrics">>, ""))

NoHint == Hint("", "", << >>, "")

\* the hint whose key equals the id, case-insensitively; NoHint for null
getServiceHint(serviceId) ==
    LET upperServiceId == toUpperCase(serviceId)
        hits == {id \in DOMAIN SERVICE_HINTS : toUpperCase(id) = upperServiceId}
    IN  IF hits = {} THEN NoHint ELSE SERVICE_HINTS[CHOOSE id \in hits : TRUE]

\* Array.prototype.join(" ")
RECURSIVE JoinSpace(_)
JoinSpace(q) ==
    IF q = << >> THEN ""
    ELSE IF Len(q) = 1 THEN q[1]
    ELSE q[1] \o " " \o JoinSpace(Tail(q))

(***************************************************************************)
(* discover-sap-data: the lexical stage.  Scores are in 1/10000, so that   *)
(* every weight and every product weight * 0.9, weight * 0.85 is an        *)
(* integer.                                                                *)
(***************************************************************************)
\* String.prototype.trim (the blanks of the queries are spaces)
RECURSIVE TrimStart(_)
TrimStart(s) == IF CharAt(s, 0) = " " THEN TrimStart(SubSeq(s, 2, Len(s))) ELSE s
RECURSIVE TrimEnd(_)
TrimEnd(s) ==
    IF s # "" /\ CharAt(s, Len(s) - 1) = " " THEN TrimEnd(SubSeq(s, 1, Len(s) - 1)) ELSE s
trim(s) == TrimEnd(TrimStart(s))

\* s.split(/\s+/): the pieces of s between the runs of blanks
RECURSIVE SplitFrom(_, _, _)
SplitFrom(s, i, word) ==
    IF i >= Len(s) THEN <<word>>
    ELSE IF CharAt(s, i) = " "
         THEN IF i > 0 /\ CharAt(s, i - 1) = " "
              THEN SplitFrom(s, i + 1, word)
              ELSE <<word>> \o SplitFrom(s, i + 1, "")
         ELSE SplitFrom(s, i + 1, word \o CharAt(s, i))
split(s) == SplitFrom(s, 0, "")

LongWord(w) == Len(w) > 2

Target(text, weight, name) == [text |-> text, weight |-> weight, name |-> name]

\* the search targets of a service: the catalog fields and the hint's fields
\* (the variant weighs them in the order label, id, title, useFor,
\* description, tcode, entities)
searchTargetsBySpecificity(service) ==
    LET hint == getServiceHint(service.id)
    IN  << Target(toLowerCase(service.id), 9000, "ID"),
           Target(toLowerCase(service.title), 8500, "Title"),
           Target(toLowerCase(service.description), 7500, "Description"),
           Target(toLowerCase(hint.label), 9500, "Label"),
           Target(toLowerCase(hint.useFor), 8000, "UseFor"),
           Target(toLowerCase(hint.tcode), 7000, "TCode"),
           Target(toLowerCase(JoinSpace(hint.entities)), 6500, "Entities") >>
searchTargets(service) ==
    LET hint == getServiceHint(service.id)
    IN  << Target(toLowerCase(service.id), 9000, "ID"),
           Target(toLowerCase(service.title), 8500, "Title"),
           Target(toLowerCase(service.description), 6000, "Description"),
           Target(toLowerCase(hint.label), 9500, "Label"),
           Target(toLowerCase(hint.useFor), 9000, "UseFor"),
           Target(toLowerCase(hint.tcode), 8500, "TCode"),
           Target(toLowerCase(JoinSpace(hint.entities)), 8000, "Entities") >>

ScoredItem(id, score, matchReason) ==
    [id |-> id, score |-> score, matchReason |-> matchReason]

\* one turn of the loop over the targets: [bestScore, matchReason] after it
\* (the variant takes every match, without comparing it with the best so far)
TargetStepLastWins(target, queryLower, queryWords, best) ==
    IF target.text = "" THEN best
    ELSE IF includes(target.text, queryLower)
    THEN [bestScore |-> target.weight, matchReason |-> target.name \o " match"]
    ELSE IF Len(queryWords) > 1
    THEN IF \A w \in DOMAIN queryWords : includes(target.text, queryWords[w])
         THEN [bestScore |-> (target.weight * 9) \div 10,
               matchReason |-> target.name \o " (all words)"]
         ELSE best
    ELSE IF Len(queryWords) = 1 /\ includes(target.text, queryWords[1])
    THEN [bestScore |-> (target.weight * 85) \div 100,
          matchReason |-> target.name \o " (partial)"]
    ELSE best
TargetStep(target, queryLower, queryWords, best) ==
    IF target.text = "" THEN best
    ELSE IF includes(target.text, queryLower)
    THEN IF target.weight > best.bestScore
         THEN [bestScore |-> target.weight, matchReason |-> target.name \o " match"]
         ELSE best
    ELSE IF Len(queryWords) > 1
    THEN IF /\ \A w \in DOMAIN queryWords : includes(target.text, queryWords[w])
            /\ (target.weight * 9) \div 10 > best.bestScore
         THEN [bestScore |-> (target.weight * 9) \div 10,
               matchReason |-> target.name \o " (all words)"]
         ELSE best
    ELSE IF Len(queryWords) = 1 /\ includes(target.text, queryWords[1])
    THEN IF (target.weight * 85) \div 100 > best.bestScore
         THEN [bestScore |-> (target.weight * 85) \div 100,
               matchReason |-> target.name \o " (partial)"]
         ELSE best
    ELSE best

RECURSIVE TargetsFrom(_, _, _, _, _)
TargetsFrom(targets, t, queryLower, queryWords, best) ==
    IF t > Len(targets) THEN best
    ELSE TargetsFrom(targets, t + 1, queryLower, queryWords,
                     TargetStep(targets[t], queryLower, queryWords, best))

\* the callback of services.map(...) in patternSearch
PatternItem(service, queryLower) ==
    LET queryWords == SelectSeq(split(queryLower), LongWord)
        best == TargetsFrom(searchTargets(service), 1, queryLower, queryWords,
                            [bestScore |-> 0, matchReason |-> ""])
    IN  ScoredItem(service.id, best.bestScore, best.matchReason)

(***************************************************************************)
(* discover-sap-data: arguments, stages, rerank, truncation                *)
(***************************************************************************)
MaxLimit == 3
MaxSemHits == 2
DEFAULT_LIMIT == 20
FALLBACK_SCORE == 5000
MIN_SCORE == 2500

Absent == "undefined"

\* args.query, args.domain, args.limit as a client may send them
QueryArgs  == {Absent, "   ", "customer", "customer email", "FBL5N", "zzz", " Line Items ",
               "metrics", "of email"}
DomainArgs == {Absent, "all", "ar", "SD", "XX"}
LimitArgs  == 0..MaxLimit        \* 0: no limit given

\* const query = (args.query as string)?.trim() || ""
QueryOf(arg) == IF arg = Absent THEN "" ELSE trim(arg)
\* const domainFilter = (args.domain as string)?.toUpperCase() || "ALL"
DomainFilterOf(arg) ==
    IF arg = Absent \/ arg = "" THEN "ALL" ELSE toUpperCase(arg)
\* const limit = (args.limit as number) || 20
LimitOf(arg) == IF arg = 0 THEN DEFAULT_LIMIT ELSE arg

\* services.filter(s => s.domain === domainFilter), unless the filter is ALL
\* (the variant never filters)
FilterByDomainNever(domainFilter) == discoveredServices
FilterByDomain(domainFilter) ==
    LET InDomain(service) == service.domain = domainFilter
    IN  IF domainFilter # "ALL" THEN SelectSeq(discoveredServices, InDomain)
        ELSE discoveredServices

\* the lexical scores of every service for every query of QueryArgs, computed once
QueryLowers == {toLowerCase(QueryOf(q)) : q \in QueryArgs}
ParsedFeed == parseV2CatalogResponse(CatalogFeed)
PatternScores ==
    [ql \in QueryLowers |->
        [i \in DOMAIN ParsedFeed |-> PatternItem(ParsedFeed[i], ql)]]
FeedIndex(serviceId) == CHOOSE i \in DOMAIN ParsedFeed : ParsedFeed[i].id = serviceId

\* services.map(...).filter(item => item.score > 0)
patternSearch(services, queryLower) ==
    LET Scored(item) == item.score > 0
    IN  SelectSeq([i \in DOMAIN services |->
                      PatternScores[queryLower][FeedIndex(services[i].id)]],
                  Scored)

\* the embedding index: a key per service or per entity of a service, of the
\* current catalog or of a snapshot that outlived it
IndexedServiceIds ==
    {"ZFAR_CUSTOMER_LINE_ITEMS_0001", "ZFAR_PAYMENT_POST_SRV_0001",
     "ZSD_CUSTOMER_INVOICES_MANAGE_0001", "RAR_BILLING_SRV"}
SemanticScores == {3000, 8000}
SemanticHit == [serviceId : IndexedServiceIds, score : SemanticScores]

\* what searchServices(query, limit * 2, 0.25) may resolve to: at most topK hits,
\* each of score >= minScore, in descending order of score
SemanticResults(topK) ==
    {h \in UNION {[1..n -> SemanticHit] : n \in 0..MaxSemHits} :
        /\ Len(h) <= topK
        /\ \A i \in DOMAIN h : h[i].score >= MIN_SCORE
        /\ \A i \in DOMAIN h : i > 1 => h[i - 1].score >= h[i].score}

\* for (const result of semanticResults) { const service = services.find(...); if (service) push }
RECURSIVE SemanticToScored(_, _)
SemanticToScored(services, hits) ==
    IF hits = << >> THEN << >>
    ELSE LET result == Head(hits)
             found  == \E i \in DOMAIN services : services[i].id = result.serviceId
         IN  (IF found
              THEN << ScoredItem(result.serviceId, result.score,
                          "Semantic match (" \o ToString(result.score \div 100) \o "%)") >>
              ELSE << >>) \o SemanticToScored(services, Tail(hits))

\* the comparator of scoredServices.sort: negative when a goes before b
compareByScoreOnly(a, b) == b.score - a.score
compare(a, b) ==
    LET sa == FindService(a.id)
        sb == FindService(b.id)
        tierA == IF sa.tier = 0 THEN 99 ELSE sa.tier
        tierB == IF sb.tier = 0 THEN 99 ELSE sb.tier
        prioA == IF sa.priority = 0 THEN 100 ELSE sa.priority
        prioB == IF sb.priority = 0 THEN 100 ELSE sb.priority
    IN  IF sa.isPriorityService # sb.isPriorityService
        THEN (IF sa.isPriorityService THEN -1 ELSE 1)
        ELSE IF tierA # tierB THEN tierA - tierB
        ELSE IF prioA # prioB THEN prioA - prioB
        ELSE b.score - a.score

\* Array.prototype.sort is stable: x goes before the first element it precedes
RECURSIVE InsertSorted(_, _)
InsertSorted(sorted, x) ==
    IF sorted = << >> THEN <<x>>
    ELSE IF compare(x, Head(sorted)) < 0 THEN <<x>> \o sorted
    ELSE <<Head(sorted)>> \o InsertSorted(Tail(sorted), x)

RECURSIVE SortFrom(_, _, _)
SortFrom(items, i, sorted) ==
    IF i > Len(items) THEN sorted
    ELSE SortFrom(items, i + 1, InsertSorted(sorted, items[i]))
sort(items) == SortFrom(items, 1, << >>)

\* scoredServices.slice(0, limit)
sliceNothing(items, limit) == items
slice(items, limit) == SubSeq(items, 1, IF limit < Len(items) THEN limit ELSE Len(items))

\* services.map(service => ({service, score: 0.5, matchReason: "All services"}))
AllServicesNone(services) == << >>
AllServices(services) ==
    [i \in DOMAIN services |-> ScoredItem(services[i].id, FALLBACK_SCORE, "All services")]

\* what the handler reports of a call: scored is scoredServices before the
\* rerank (kept as history), sorted after it
Outcome(query, limit, usePattern, useAll, scored, sorted) ==
    [patternTried |-> usePattern,
     searchMethod |-> IF useAll THEN (IF query # "" THEN "fallback" ELSE "all")
                      ELSE IF usePattern THEN "pattern" ELSE "semantic",
     scored       |-> scored,
     totalFound   |-> Len(sorted),
     limited      |-> slice(sorted, limit)]

\* scoredServices.sort(...); scoredServices.slice(0, limit)
Rerank(query, limit, usePattern, useAll, scored) ==
    Outcome(query, limit, usePattern, useAll, scored, sort(scored))

\* if (scoredServices.length === 0) all services; then the rerank
AfterPattern(query, limit, services, usePattern, scoredServices) ==
    Rerank(query, limit, usePattern, scoredServices = << >>,
           IF scoredServices = << >> THEN AllServices(services) ELSE scoredServices)

\* if (scoredServices.length === 0 && query) the lexical stage
FromPatternSkipped(query, limit, services, usePattern, fromSemantic) ==
    AfterPattern(query, limit, services, FALSE, fromSemantic)
FromPattern(query, limit, services, usePattern, fromSemantic) ==
    AfterPattern(query, limit, services, usePattern,
                 IF usePattern THEN patternSearch(services, toLowerCase(query))
                 ELSE fromSemantic)

\* the handler from the end of the semantic stage on: the lexical stage when the
\* query is not empty and nothing is scored yet, all services when still nothing
\* is scored, the rerank and the truncation
AfterSemantic(query, domainFilter, limit, fromSemantic) ==
    FromPattern(query, limit, FilterByDomain(domainFilter),
                query # "" /\ fromSemantic = << >>, fromSemantic)

(***************************************************************************)
(* Lazy metadata loading: get-entity-metadata, execute-sap-operation and   *)
(* the sap://service/{serviceId}/metadata resource.  Every session has its *)
(* own tool registry, with its own metadataCache; all registries hold the  *)
(* same catalog records, so service.metadata is shared.  A handler runs    *)
(* without interruption up to its next await.                              *)
(***************************************************************************)
MaxCalls == 3

\* the sessions (one registry each) and the calls that may be in progress at once
Sessions == {1, 2}
Slots == {1, 2}

\* an entity type as extractEntityTypes builds it: its name, the name of its
\* entity set, its key properties in the order of the Key element, and the
\* sap:creatable, sap:updatable, sap:deletable flags of its entity set
EntityType(name, entitySet, keys, creatable, updatable, deletable) ==
    [name |-> name, entitySet |-> entitySet, keys |-> keys,
     creatable |-> creatable, updatable |-> updatable, deletable |-> deletable]

\* the entity types of the $metadata document of a service, as the backend serves it
UpstreamEntityTypes(serviceId) ==
    IF serviceId = "ZFAR_CUSTOMER_LINE_ITEMS_0001"
    THEN << EntityType("Item", "Items", <<"CompanyCode", "AccountingDocument">>,
                       FALSE, TRUE, FALSE),
            EntityType("Customer", "Customers", <<"Customer">>, TRUE, FALSE, TRUE) >>
    ELSE IF serviceId = "ZUI_COLLECTIONS_EMAIL_0001"
    THEN << EntityType("CollectionEmail", "CollectionEmails", <<"EmailId">>,
                       TRUE, TRUE, TRUE) >>
    ELSE << >>

\* metadata: null of a catalog record
NoMetadata == [loaded |-> FALSE, entityTypes |-> << >>]

\* what fetchServiceMetadata resolves to: parseMetadata(response.data, ...)
parseMetadata(serviceId) == [loaded |-> TRUE, entityTypes |-> UpstreamEntityTypes(serviceId)]

\* the messages of the Errors fetchServiceMetadata rejects with
FetchErrors == {"Request failed with status code 503"}
\* the messages of the Errors the methods of sapClient reject with
ReadErrors == {"SAP API Error 400: Bad Request"}

\* the arguments a client may send
ServiceArgs   == {"ZFAR_CUSTOMER_LINE_ITEMS_0001", "ZUI_COLLECTIONS_EMAIL_0001", "ZNO_SUCH_SRV"}
EntityArgs    == {"Item", ""}
OperationArgs == {"READ", "purge"}

CatalogIds == {discoveredServices[i].id : i \in DOMAIN discoveredServices}

\* Array.prototype.join(", ")
RECURSIVE JoinComma(_)
JoinComma(q) ==
    IF q = << >> THEN ""
    ELSE IF Len(q) = 1 THEN q[1]
    ELSE q[1] \o ", " \o JoinComma(Tail(q))

\* entityTypes.find(e => e.name === entityName) finds one
HasEntity(m, entityName) ==
    \E i \in DOMAIN m.entityTypes : m.entityTypes[i].name = entityName
\* the one it finds: the first of that name
FindEntity(m, entityName) ==
    m.entityTypes[SetMin({i \in DOMAIN m.entityTypes : m.entityTypes[i].name = entityName})]
\* entityTypes.map(e => e.name)
EntityNames(m) == [i \in DOMAIN m.entityTypes |-> m.entityTypes[i].name]

\* args.parameters: left out, or an object, its properties <<name, value>> in
\* insertion order; the values are strings, which String() and a template
\* literal leave as they are
NoParameters == [absent |-> TRUE, props |-> << >>]
Object(props) == [absent |-> FALSE, props |-> props]

\* key in parameters
In(key, parameters) == \E i \in DOMAIN parameters : parameters[i][1] = key
\* parameters[key]
Get(parameters, key) ==
    parameters[CHOOSE i \in DOMAIN parameters : parameters[i][1] = key][2]

\* the request a method of sapClient sends: the method, the entity set, the key
\* it was given, the URL after servicePath (the methods that take a key build
\* `${entitySet}('${key}')`) and the body; the method "none" stands for no
\* request
Request(fn, entitySet, key, data) ==
    [fn |-> fn, entitySet |-> entitySet, key |-> key,
     url |-> IF fn \in {"readEntity", "updateEntity", "deleteEntity"}
             THEN entitySet \o "('" \o key \o "')"
             ELSE entitySet,
     data |-> data]

IdleCall ==
    [pc |-> "idle", kind |-> "none", registry |-> 0, serviceId |-> "",
     entityName |-> "", operation |-> "", args |-> NoParameters, parameters |-> << >>,
     fetched |-> FALSE, upstream |-> Request("none", "", "", << >>),
     isError |-> FALSE, thrown |-> FALSE, text |-> ""]

NewCall(kind, registry, serviceId, entityName, operation) ==
    [IdleCall EXCEPT !.pc = "running", !.kind = kind, !.registry = registry,
                     !.serviceId = serviceId, !.entityName = entityName,
                     !.operation = operation]

\* the arguments of executeOperation: const operation = args.operation?.toLowerCase()
\* and const parameters = args.parameters || {}
NewAct(registry, serviceId, entityName, operation, parameters) ==
    [NewCall("act", registry, serviceId, entityName, toLowerCase(operation))
        EXCEPT !.args = parameters,
               !.parameters = IF parameters.absent THEN << >> ELSE parameters.props]

\* return {content: [{type: "text", text}]}
Returned(c, text) == [c EXCEPT !.pc = "done", !.text = text]
\* return {content: [{type: "text", text}], isError: true}
ReturnedError(c, text) == [c EXCEPT !.pc = "done", !.isError = TRUE, !.text = text]
\* the handler of the resource throws
Thrown(c, text) == [c EXCEPT !.pc = "done", !.thrown = TRUE, !.text = text]
\* the catch of executeOperation
Level3Error(c, errorMsg) == ReturnedError(c, "[LEVEL 3 - ERROR] " \o errorMsg \o "\n\n")

\* if (!service.metadata) { if (this.metadataCache.has(serviceId)) ... else fetch }
NeedsFetchCacheOnly(registry, serviceId) ==
    serviceId \notin DOMAIN metadataCache[registry]
NeedsFetch(registry, serviceId) ==
    /\ ~metadata[serviceId].loaded
    /\ serviceId \notin DOMAIN metadataCache[registry]

\* service.metadata once the lazy load has gone through without a fetch
LoadedWithoutFetch(registry, serviceId) ==
    IF metadata[serviceId].loaded THEN metadata[serviceId]
    ELSE metadataCache[registry][serviceId]

\* getEntityMetadata from "Find the entity" on, service.metadata being m (the
\* variant words the error as executeOperation does)
InspectEntityBare(c, m) ==
    IF ~HasEntity(m, c.entityName)
    THEN ReturnedError(c, "ERROR: Entity '" \o c.entityName \o "' not found in "
                          \o c.serviceId)
    ELSE Returned(c, "[LEVEL 2 - METADATA] Schema for " \o c.entityName \o " in "
                     \o FindService(c.serviceId).title \o "\n\n")
InspectEntity(c, m) ==
    IF ~HasEntity(m, c.entityName)
    THEN ReturnedError(c, "ERROR: Entity '" \o c.entityName \o "' not found in "
                          \o c.serviceId \o ".\n\nAvailable entities: "
                          \o (IF JoinComma(EntityNames(m)) = "" THEN "none"
                              ELSE JoinComma(EntityNames(m))))
    ELSE Returned(c, "[LEVEL 2 - METADATA] Schema for " \o c.entityName \o " in "
                     \o FindService(c.serviceId).title \o "\n\n")

\* parts.join(',')
RECURSIVE JoinKeyParts(_)
JoinKeyParts(parts) ==
    IF parts = << >> THEN ""
    ELSE IF Len(parts) = 1 THEN parts[1]
    ELSE parts[1] \o "," \o JoinKeyParts(Tail(parts))

\* buildKeyValue(entityType, parameters): [threw, value], value being the key or
\* the message of the error thrown at the first key that is not in parameters
\* (one variant reads the keys without looking whether they are there, the
\* other takes the pairs in the order of the properties of parameters)
buildKeyValueUnchecked(entityType, parameters) ==
    LET Value(key) == IF In(key, parameters) THEN Get(parameters, key) ELSE "undefined"
    IN  IF Len(entityType.keys) = 1
        THEN [threw |-> FALSE, value |-> Value(entityType.keys[1])]
        ELSE [threw |-> FALSE,
              value |-> JoinKeyParts([i \in DOMAIN entityType.keys |->
                            entityType.keys[i] \o "='" \o Value(entityType.keys[i]) \o "'"])]
buildKeyValueInArgOrder(entityType, parameters) ==
    LET Missing(key) == ~In(key, parameters)
        IsKey(prop) == \E i \in DOMAIN entityType.keys : entityType.keys[i] = prop[1]
        pairs == SelectSeq(parameters, IsKey)
    IN  IF SelectSeq(entityType.keys, Missing) # << >>
        THEN [threw |-> TRUE,
              value |-> "Missing key: " \o SelectSeq(entityType.keys, Missing)[1]]
        ELSE IF Len(entityType.keys) = 1
        THEN [threw |-> FALSE, value |-> Get(parameters, entityType.keys[1])]
        ELSE [threw |-> FALSE,
              value |-> JoinKeyParts([i \in DOMAIN pairs |->
                            pairs[i][1] \o "='" \o pairs[i][2] \o "'"])]
buildKeyValue(entityType, parameters) ==
    LET Missing(key) == ~In(key, parameters)
    IN  IF SelectSeq(entityType.keys, Missing) # << >>
        THEN [threw |-> TRUE,
              value |-> "Missing key: " \o SelectSeq(entityType.keys, Missing)[1]]
        ELSE IF Len(entityType.keys) = 1
        THEN [threw |-> FALSE, value |-> Get(parameters, entityType.keys[1])]
        ELSE [threw |-> FALSE,
              value |-> JoinKeyParts([i \in DOMAIN entityType.keys |->
                            entityType.keys[i] \o "='"
                            \o Get(parameters, entityType.keys[i]) \o "'"])]

\* const updateData = {...parameters}; keys.forEach(key => delete updateData[key])
updateDataUnstripped(parameters, keys) == parameters
updateData(parameters, keys) ==
    LET NotKey(prop) == \A i \in DOMAIN keys : keys[i] # prop[1]
    IN  SelectSeq(parameters, NotKey)

\* a key-addressed operation once buildKeyValue returned or threw
WithKey(c, fn, entitySet, keyValue, data) ==
    IF keyValue.threw THEN Level3Error(c, keyValue.value)
    ELSE [c EXCEPT !.pc = "executing", !.upstream = Request(fn, entitySet, keyValue.value, data)]

\* if (!entityType.creatable) throw ..., and so for updatable and deletable
NotAllowedNever(entityType, operation) == FALSE
NotAllowed(entityType, operation) ==
    \/ operation = "create" /\ ~entityType.creatable
    \/ operation = "update" /\ ~entityType.updatable
    \/ operation = "delete" /\ ~entityType.deletable

\* switch (operation) { ... } up to the await of the method of sapClient
Execute(c, entityType) ==
    IF NotAllowed(entityType, c.operation)
    THEN Level3Error(c, "Entity '" \o c.entityName \o "' is not "
                        \o (IF c.operation = "create" THEN "creatable"
                            ELSE IF c.operation = "update" THEN "updatable"
                            ELSE "deletable"))
    ELSE IF c.operation = "read"
    THEN [c EXCEPT !.pc = "executing", !.upstream = Request("readEntitySet", entityType.entitySet, "", << >>)]
    ELSE IF c.operation = "create"
    THEN [c EXCEPT !.pc = "executing", !.upstream = Request("createEntity", entityType.entitySet, "", c.parameters)]
    ELSE IF c.operation = "read-single"
    THEN WithKey(c, "readEntity", entityType.entitySet,
                 buildKeyValue(entityType, c.parameters), << >>)
    ELSE IF c.operation = "update"
    THEN WithKey(c, "updateEntity", entityType.entitySet,
                 buildKeyValue(entityType, c.parameters),
                 updateData(c.parameters, entityType.keys))
    ELSE WithKey(c, "deleteEntity", entityType.entitySet,
                 buildKeyValue(entityType, c.parameters), << >>)

\* executeOperation from "Find entity" up to the await of the method of sapClient
OperateEntity(c, m) ==
    IF ~HasEntity(m, c.entityName)
    THEN Level3Error(c, "Entity '" \o c.entityName \o "' not found in " \o c.serviceId)
    ELSE Execute(c, FindEntity(m, c.entityName))

\* opDescription of the operation that went through
opDescription(c) ==
    IF c.operation = "read" THEN "Reading " \o c.entityName
    ELSE IF c.operation = "read-single"
    THEN "Reading single " \o c.entityName \o " with key: " \o c.upstream.key
    ELSE IF c.operation = "create" THEN "Creating " \o c.entityName
    ELSE IF c.operation = "update"
    THEN "Updating " \o c.entityName \o " with key: " \o c.upstream.key
    ELSE "Deleting " \o c.entityName \o " with key: " \o c.upstream.key

\* the resource handler from its return on
ResourceContents(c, m) == Returned(c, "entities: " \o JoinComma(EntityNames(m)))

\* the handler of call c goes on with service.metadata = m
AfterLoad(c, m) ==
    IF c.kind = "inspect" THEN InspectEntity(c, m)
    ELSE IF c.kind = "act" THEN OperateEntity(c, m)
    ELSE ResourceContents(c, m)

\* the handler of call c after fetchServiceMetadata rejected (the variant has
\* no catch around executeOperation, as the resource handler has none)
AfterFetchErrorUncaught(c, fetchError) ==
    IF c.kind = "inspect"
    THEN ReturnedError(c, "ERROR: Failed to load metadata for " \o c.serviceId
                          \o ": Error: " \o fetchError)
    ELSE Thrown(c, fetchError)
\* the handler of call c after fetchServiceMetadata rejected with an Error of
\* the message fetchError: `${fetchError}` is "Error: " and the message, and
\* the catch of executeOperation takes error.message
AfterFetchError(c, fetchError) ==
    IF c.kind = "inspect"
    THEN ReturnedError(c, "ERROR: Failed to load metadata for " \o c.serviceId
                          \o ": Error: " \o fetchError)
    ELSE IF c.kind = "act" THEN Level3Error(c, fetchError)
    ELSE Thrown(c, fetchError)

\* the history of the fetches of a service: how many times fetchServiceMetadata
\* was invoked for it, how many of these are pending, whether one resolved, how
\* many rejected, and the kind of call that awaited the last one that rejected
NoFetch == [invoked |-> 0, pending |-> 0, ok |-> FALSE, failed |-> 0, failedBy |-> "none"]
Invoked(serviceId) ==
    [fetches EXCEPT ![serviceId].invoked = @ + 1, ![serviceId].pending = @ + 1]

\* the lazy load of the handler of call c, a call on a service of the catalog:
\* the handler goes on at once when the metadata is there, and awaits
\* fetchServiceMetadata otherwise
LazyLoad(slot, c) ==
    IF NeedsFetch(c.registry, c.serviceId)
    THEN /\ call' = [call EXCEPT ![slot] = [c EXCEPT !.pc = "fetching", !.fetched = TRUE]]
         /\ fetches' = Invoked(c.serviceId)
         /\ UNCHANGED metadata
    ELSE /\ call' = [call EXCEPT ![slot] =
                        AfterLoad(c, LoadedWithoutFetch(c.registry, c.serviceId))]
         /\ metadata' = [metadata EXCEPT ![c.serviceId] =
                            LoadedWithoutFetch(c.registry, c.serviceId)]
         /\ UNCHANGED fetches

\* a call that ends before the lazy load
EndsEarly(slot, c) ==
    /\ call' = [call EXCEPT ![slot] = c]
    /\ UNCHANGED <<metadata, fetches>>

\* a new call may begin in the slot: the first one that holds no call in progress
Free(slot) ==
    /\ started < MaxCalls
    /\ call[slot].pc \in {"idle", "done"}
    /\ \A other \in Slots : other < slot => call[other].pc \notin {"idle", "done"}

\* getEntityMetadata(args) up to its await or its return
InspectBegin(slot, registry, serviceId, entityName) ==
    /\ Free(slot)
    /\ started' = started + 1
    /\ IF serviceId = "" \/ entityName = ""
       THEN EndsEarly(slot, ReturnedError(
                NewCall("inspect", registry, serviceId, entityName, ""),
                "ERROR: Both serviceId and entityName are required."))
       ELSE IF serviceId \notin CatalogIds
       THEN EndsEarly(slot, ReturnedError(
                NewCall("inspect", registry, serviceId, entityName, ""),
                "ERROR: Service not found: " \o serviceId))
       ELSE LazyLoad(slot, NewCall("inspect", registry, serviceId, entityName, ""))
    /\ UNCHANGED <<startup, sessions, embeddings, discoveredServices, lastIndex, classifyLog, classifyOut, search,
                   metadataCache>>

validOps == {"read", "read-single", "create", "update", "delete"}

\* executeOperation(args) up to its first await or its return
ActBegin(slot, registry, serviceId, entityName, operation, parameters) ==
    /\ Free(slot)
    /\ started' = started + 1
    /\ IF toLowerCase(operation) \notin validOps
       THEN EndsEarly(slot, Level3Error(
                NewAct(registry, serviceId, entityName, operation, parameters),
                "Invalid operation: " \o toLowerCase(operation)
                \o ". Valid: read, read-single, create, update, delete"))
       ELSE IF serviceId \notin CatalogIds
       THEN EndsEarly(slot, Level3Error(
                NewAct(registry, serviceId, entityName, operation, parameters),
                "Service not found: " \o serviceId))
       ELSE LazyLoad(slot, NewAct(registry, serviceId, entityName, operation, parameters))
    /\ UNCHANGED <<startup, sessions, embeddings, discoveredServices, lastIndex, classifyLog, classifyOut, search,
                   metadataCache>>

\* the handler of sap://service/{serviceId}/metadata up to its await or its end
ResourceBegin(slot, registry, serviceId) ==
    /\ Free(slot)
    /\ started' = started + 1
    /\ IF serviceId \notin CatalogIds
       THEN EndsEarly(slot, Thrown(NewCall("resource", registry, serviceId, "", ""),
                                   "Service not found: " \o serviceId))
       ELSE LazyLoad(slot, NewCall("resource", registry, serviceId, "", ""))
    /\ UNCHANGED <<startup, sessions, embeddings, discoveredServices, lastIndex, classifyLog, classifyOut, search,
                   metadataCache>>

\* the outcome of the fetch that call c awaits is recorded
Settled(c, outcome) ==
    [fetches EXCEPT ![c.serviceId].pending = @ - 1,
                    ![c.serviceId].ok = @ \/ outcome = "ok",
                    ![c.serviceId].failed = IF outcome = "failed" THEN @ + 1 ELSE @,
                    ![c.serviceId].failedBy = IF outcome = "failed" THEN c.kind ELSE @]

\* await fetchServiceMetadata(service) resolves to m: service.metadata and the
\* cache of the registry are set to it, and the handler goes on
FetchReturn(slot, m) ==
    /\ call[slot].pc = "fetching"
    /\ metadata' = [metadata EXCEPT ![call[slot].serviceId] = m]
    /\ metadataCache' = [metadataCache EXCEPT ![call[slot].registry] =
                            (call[slot].serviceId :> m) @@ @]
    /\ call' = [call EXCEPT ![slot] = AfterLoad(call[slot], m)]
    /\ fetches' = Settled(call[slot], "ok")
    /\ UNCHANGED <<startup, sessions, embeddings, discoveredServices, lastIndex, classifyLog, classifyOut, search, started>>

\* await fetchServiceMetadata(service) rejects: nothing is stored (the variant
\* stores the failure as the entry of the cache)
FetchThrowCached(slot, fetchError) ==
    /\ call[slot].pc = "fetching"
    /\ call' = [call EXCEPT ![slot] = AfterFetchError(call[slot], fetchError)]
    /\ fetches' = Settled(call[slot], "failed")
    /\ metadataCache' = [metadataCache EXCEPT ![call[slot].registry] =
                            (call[slot].serviceId :> [loaded |-> TRUE, entityTypes |-> << >>]) @@ @]
    /\ UNCHANGED <<startup, sessions, embeddings, discoveredServices, lastIndex, classifyLog, classifyOut, search,
                   metadata, started>>
FetchThrow(slot, fetchError) ==
    /\ call[slot].pc = "fetching"
    /\ call' = [call EXCEPT ![slot] = AfterFetchError(call[slot], fetchError)]
    /\ fetches' = Settled(call[slot], "failed")
    /\ UNCHANGED <<startup, sessions, embeddings, discoveredServices, lastIndex, classifyLog, classifyOut, search,
                   metadata, metadataCache, started>>

\* the awaited method of sapClient resolves
ActReturn(slot) ==
    /\ call[slot].pc = "executing"
    /\ call' = [call EXCEPT ![slot] =
                   Returned(call[slot], "[LEVEL 3 - SUCCESS] "
                                        \o opDescription(call[slot]) \o "\n\n")]
    /\ UNCHANGED <<startup, sessions, embeddings, discoveredServices, lastIndex, classifyLog, classifyOut, search,
                   metadata, metadataCache, fetches, started>>

\* the awaited method of sapClient rejects
ActThrow(slot, errorMsg) ==
    /\ call[slot].pc = "executing"
    /\ call' = [call EXCEPT ![slot] = Level3Error(call[slot], errorMsg)]
    /\ UNCHANGED <<startup, sessions, embeddings, discoveredServices, lastIndex, classifyLog, classifyOut, search,
                   metadata, metadataCache, fetches, started>>

\* no metadata, operation or resource call has been made
NoCalls ==
    /\ metadata = [id \in CatalogIds |-> NoMetadata]
    /\ metadataCache = [registry \in Sessions |-> << >>]
    /\ call = [slot \in Slots |-> IdleCall]
    /\ fetches = [id \in CatalogIds |-> NoFetch]
    /\ started = 0

NoCall == [n |-> 0]

\* this.embeddingService at the time of the call
EmbeddingStates == {"absent", "notReady", "ready"}

SearchIdle ==
    [pc |-> "idle", queryArg |-> Absent, domainArg |-> Absent, limitArg |-> 0,
     emb |-> "absent", semantic |-> "none", hits |-> << >>,
     patternTried |-> FALSE, searchMethod |-> "none", scored |-> << >>, totalFound |-> 0,
     limited |-> << >>, results |-> << >>, isError |-> FALSE,
     session |-> 1, during |-> "ready"]

\* an element of results: what the response says of a listed service ("" and
\* << >> stand for the tcode and the keyEntities of a service without hint);
\* the variant puts service.metadata in it
ResultWithSchema(item) ==
    [serviceId |-> item.id, matchReason |-> item.matchReason,
     hasMetadata |-> metadata[item.id].loaded, metadata |-> metadata[item.id]]
Result(item) ==
    LET service == FindService(item.id)
        hint == getServiceHint(item.id)
        configs == {d \in DOMAIN DOMAIN_CONFIGS : DOMAIN_CONFIGS[d].name = service.domain}
    IN  [serviceId |-> service.id,
         serviceName |-> IF hint.label # "" THEN hint.label ELSE service.title,
         useFor |-> IF hint.useFor # "" THEN hint.useFor ELSE service.description,
         keyEntities |-> hint.entities,
         tcode |-> hint.tcode,
         domain |-> service.domain,
         domainName |-> IF service.domain = NoDomain THEN "Unclassified"
                        ELSE IF configs = {} THEN service.domain
                        ELSE DOMAIN_CONFIGS[CHOOSE d \in configs : TRUE].displayName,
         tier |-> service.tier,
         tierLabel |-> IF service.tier = 1 THEN "Tier 1 (Transactional)"
                       ELSE IF service.tier = 2 THEN "Tier 2 (Display)"
                       ELSE IF service.tier = 3 THEN "Tier 3 (Analytics)"
                       ELSE "Unclassified",
         isPriority |-> service.isPriorityService,
         matchReason |-> item.matchReason,
         hasMetadata |-> metadata[item.id].loaded]

\* the call returns {content: [...]} built from the outcome of the stages
SearchDone(begun, outcome, semantic, hits) ==
    [begun EXCEPT !.pc = "done", !.semantic = semantic, !.hits = hits,
                    !.patternTried = outcome.patternTried,
                    !.searchMethod = outcome.searchMethod,
                    !.scored = outcome.scored,
                    !.totalFound = outcome.totalFound,
                    !.limited = outcome.limited,
                    !.results = [i \in DOMAIN outcome.limited |-> Result(outcome.limited[i])],
                    !.isError = FALSE]

\* the call with its arguments, before any stage
SearchStarted(queryArg, domainArg, limitArg, emb) ==
    [SearchIdle EXCEPT !.queryArg = queryArg, !.domainArg = domainArg,
                       !.limitArg = limitArg, !.emb = emb]

\* discoverServicesAndEntities(args) up to its await, or to its end when the
\* semantic stage is skipped: no query, or no embedding service that is ready
SearchBegin(queryArg, domainArg, limitArg, emb) ==
    /\ search.pc = "idle"
    /\ IF QueryOf(queryArg) # "" /\ emb = "ready"
       THEN search' = [SearchStarted(queryArg, domainArg, limitArg, emb)
                          EXCEPT !.pc = "semantic"]
       ELSE search' = SearchDone(SearchStarted(queryArg, domainArg, limitArg, emb),
                                 AfterSemantic(QueryOf(queryArg), DomainFilterOf(domainArg),
                                               LimitOf(limitArg), << >>),
                                 "none", << >>)
    /\ UNCHANGED <<startup, sessions, embeddings, discoveredServices, lastIndex, classifyLog, classifyOut, metadata,
                   metadataCache, call, fetches, started>>

\* await searchServices(...) resolves; the rest of the handler runs
SemanticReturn(hits) ==
    /\ search.pc = "semantic"
    /\ hits \in SemanticResults(LimitOf(search.limitArg) * 2)
    /\ search' = SearchDone(search,
                    AfterSemantic(QueryOf(search.queryArg),
                                  DomainFilterOf(search.domainArg),
                                  LimitOf(search.limitArg),
                                  SemanticToScored(FilterByDomain(DomainFilterOf(search.domainArg)),
                                                   hits)),
                    "returned", hits)
    /\ UNCHANGED <<startup, sessions, embeddings, discoveredServices, lastIndex, classifyLog, classifyOut, metadata,
                   metadataCache, call, fetches, started>>

\* await searchServices(...) rejects; the catch logs and the handler goes on
SemanticThrowUncaught ==
    /\ search.pc = "semantic"
    /\ search' = [search EXCEPT !.pc = "done", !.semantic = "threw", !.isError = TRUE]
    /\ UNCHANGED <<startup, sessions, embeddings, discoveredServices, lastIndex, classifyLog, classifyOut, metadata,
                   metadataCache, call, fetches, started>>
SemanticThrow ==
    /\ search.pc = "semantic"
    /\ search' = SearchDone(search,
                    AfterSemantic(QueryOf(search.queryArg),
                                  DomainFilterOf(search.domainArg),
                                  LimitOf(search.limitArg), << >>),
                    "threw", << >>)
    /\ UNCHANGED <<startup, sessions, embeddings, discoveredServices, lastIndex, classifyLog, classifyOut, metadata,
                   metadataCache, call, fetches, started>>

\* the searches of a session that has made no other call, or one
\* get-entity-metadata call that fetched the schema of a service
InitSearch ==
    /\ discoveredServices = discoverCatalog(CatalogFeed)
    /\ lastIndex = FreshLastIndex
    /\ classifyLog = << >>
    /\ classifyOut = NoCall
    /\ search = SearchIdle
    /\ startup = "ready"
    /\ sessions = [s \in Sessions |-> "discovered"]
    /\ embeddings = [pc |-> "idle"]
    /\ \/ NoCalls
       \/ \E serviceId \in {"ZUI_COLLECTIONS_EMAIL_0001"} :
             /\ metadata = [id \in CatalogIds |->
                               IF id = serviceId THEN parseMetadata(id) ELSE NoMetadata]
             /\ metadataCache = [registry \in Sessions |->
                                    IF registry = 1 THEN (serviceId :> parseMetadata(serviceId))
                                    ELSE << >>]
             /\ call = [slot \in Slots |->
                           IF slot = 1
                           THEN AfterLoad([NewCall("inspect", 1, serviceId, "CollectionEmail", "")
                                              EXCEPT !.fetched = TRUE],
                                          parseMetadata(serviceId))
                           ELSE IdleCall]
             /\ fetches = [id \in CatalogIds |->
                              IF id = serviceId
                              THEN [NoFetch EXCEPT !.invoked = 1, !.ok = TRUE]
                              ELSE NoFetch]
             /\ started = 1

NextSearch ==
    \/ \E q \in QueryArgs, d \in DomainArgs, l \in LimitArgs, e \in EmbeddingStates :
          SearchBegin(q, d, l, e)
    \/ \E hits \in SemanticResults(2 * DEFAULT_LIMIT) : SemanticReturn(hits)
    \/ SemanticThrow

SpecSearch == InitSearch /\ [][NextSearch]_vars

\* services: the catalog after the domain filter of the call
Corpus == FilterByDomain(DomainFilterOf(search.domainArg))
CorpusIds == {Corpus[i].id : i \in DOMAIN Corpus}

\* C4: a finished search over a non-empty domain-filtered corpus lists at least
\* one service, whatever the query, the limit and the outcome of the stages.
C4_NeverEmpty ==
    (search.pc = "done" /\ Corpus # << >>) => Len(search.limited) >= 1

\* the semantic stage returned hits, all of them outside the domain filter, the
\* lexical stage matched nothing, and the result still lists a service
C4_Witness ==
    /\ search.pc = "done" /\ search.semantic = "returned"
    /\ search.hits # << >>
    /\ \A i \in DOMAIN search.hits : search.hits[i].serviceId \notin CorpusIds
    /\ search.searchMethod = "fallback"
    /\ Len(search.limited) >= 1

\* C5: a finished search with an empty query and limit N lists exactly
\* min(N, |filtered corpus|) services, no service id twice.
C5_EmptyQueryCount ==
    (search.pc = "done" /\ QueryOf(search.queryArg) = "") =>
        /\ Len(search.limited) =
              IF LimitOf(search.limitArg) < Len(Corpus) THEN LimitOf(search.limitArg)
              ELSE Len(Corpus)
        /\ \A i, j \in DOMAIN search.limited :
              i # j => search.limited[i].id # search.limited[j].id

\* a blank query with limit 2 over a corpus of more than 2 services lists 2
C5_Witness ==
    /\ search.pc = "done" /\ search.queryArg = "   " /\ search.limitArg = 2
    /\ Len(Corpus) > 2
    /\ Len(search.limited) = 2

\* the embedding provider is absent, not ready, or threw
EmbeddingUnavailable == search.emb # "ready" \/ search.semantic = "threw"

\* the lexical path run directly: patternSearch over the filtered corpus, the
\* priority rerank, the truncation
LexicalMatches == patternSearch(Corpus, toLowerCase(QueryOf(search.queryArg)))
LexicalPath == slice(sort(LexicalMatches), LimitOf(search.limitArg))

\* C6 as stated, for the queries that reach the lexical stage (the non-empty
\* ones): with the embedding provider unavailable the result of a search equals,
\* element by element, the lexical path run directly.
C6_EqualsLexicalPath ==
    (search.pc = "done" /\ EmbeddingUnavailable /\ QueryOf(search.queryArg) # "") =>
        search.limited = LexicalPath

\* C6, amended: with the embedding provider unavailable, the result of a search
\* equals the lexical path run directly whenever the query is not empty and the
\* lexical path matches at least one service; otherwise it is the whole filtered
\* corpus at the neutral score, reranked and truncated.
C6_EqualsLexicalPathWhenMatched ==
    (search.pc = "done" /\ EmbeddingUnavailable) =>
        IF QueryOf(search.queryArg) # "" /\ LexicalMatches # << >>
        THEN search.limited = LexicalPath
        ELSE search.limited = slice(sort(AllServices(Corpus)), LimitOf(search.limitArg))

\* the provider threw, the lexical path matched several services, and the
\* result is the lexical path
C6_Witness ==
    /\ search.pc = "done" /\ search.semantic = "threw"
    /\ Len(LexicalMatches) > 1
    /\ search.limited = LexicalPath
    /\ search.searchMethod = "pattern"

\* C7: an error of the embedding provider during a search is not returned to the
\* caller, and the lexical stage is run after it.
C7_EmbeddingErrorDemoted ==
    (search.pc = "done" /\ search.semantic = "threw") =>
        ~search.isError /\ search.patternTried

\* the provider threw and the call returned the services the lexical stage matched
C7_Witness ==
    /\ search.pc = "done" /\ search.semantic = "threw"
    /\ ~search.isError
    /\ search.searchMethod = "pattern"
    /\ search.limited # << >>

\* the semantic hits of the call on services of the catalog outside domain d
HitsOutside(d) ==
    {i \in DOMAIN search.hits :
        /\ search.hits[i].serviceId \in CatalogIds
        /\ FindService(search.hits[i].serviceId).domain # d}

\* C25: when a search is called with a domain filter D other than "all", every
\* service of the result has domain D, whichever stage produced the result, and
\* no semantic hit on a service outside D is in the result.
C25_DomainFilterSound ==
    (search.pc = "done" /\ DomainFilterOf(search.domainArg) # "ALL") =>
        /\ \A i \in DOMAIN search.limited :
              FindService(search.limited[i].id).domain = DomainFilterOf(search.domainArg)
        /\ \A h \in HitsOutside(DomainFilterOf(search.domainArg)) :
              \A i \in DOMAIN search.scored :
                  search.scored[i].id # search.hits[h].serviceId

\* the filter is AR, the semantic stage returned a hit on a service of AR and
\* one on a service of the catalog outside AR, and the result is the first alone
C25_Witness ==
    /\ search.pc = "done" /\ search.searchMethod = "semantic"
    /\ search.domainArg = "ar"
    /\ Len(search.hits) = 2
    /\ HitsOutside("AR") # {}
    /\ Len(search.limited) = 1

\* the fields of an element of results
ResultFields ==
    {"serviceId", "serviceName", "useFor", "keyEntities", "tcode", "domain",
     "domainName", "tier", "tierLabel", "isPriority", "matchReason", "hasMetadata"}

\* the element says of a service what the catalog, the hints and the search
\* stage say of it, and whether its schema is loaded
ListsService(r) ==
    /\ DOMAIN r = ResultFields
    /\ r.serviceId \in CatalogIds
    /\ r.serviceName \in {getServiceHint(r.serviceId).label, FindService(r.serviceId).title}
    /\ r.useFor \in {getServiceHint(r.serviceId).useFor, FindService(r.serviceId).description}
    /\ r.keyEntities = getServiceHint(r.serviceId).entities
    /\ r.tcode = getServiceHint(r.serviceId).tcode
    /\ r.domain = FindService(r.serviceId).domain
    /\ r.tier = FindService(r.serviceId).tier
    /\ r.isPriority = FindService(r.serviceId).isPriorityService
    /\ r.hasMetadata \in BOOLEAN

LowerQueryOf == [q \in QueryArgs |-> toLowerCase(QueryOf(q))]

\* the names of the lexical fields, and the order of specificity
FieldNames == {"ID", "Title", "Description", "Label", "UseFor", "TCode", "Entities"}
SpecificityOrder == <<"Label", "ID", "Title", "UseFor", "Description", "TCode", "Entities">>

\* the weight of each field of each service of the feed, and the fields of each
\* service that contain the whole query, for every query
FieldWeights ==
    [i \in DOMAIN ParsedFeed |->
        [n \in FieldNames |->
            searchTargets(ParsedFeed[i])[
                CHOOSE t \in DOMAIN searchTargets(ParsedFeed[i]) :
                    searchTargets(ParsedFeed[i])[t].name = n].weight]]
FullMatches ==
    [ql \in QueryLowers |->
        [i \in DOMAIN ParsedFeed |->
            {searchTargets(ParsedFeed[i])[t].name : t \in
                {u \in DOMAIN searchTargets(ParsedFeed[i]) :
                    /\ searchTargets(ParsedFeed[i])[u].text # ""
                    /\ includes(searchTargets(ParsedFeed[i])[u].text, ql)}}]]

\* C23 as claimed: the weights of the lexical fields are strictly ordered as
\* label > id > title > useFor > description > tcode > entities, for every
\* service.
C23_OrderedBySpecificity ==
    \A i \in DOMAIN discoveredServices :
        \A a, b \in DOMAIN SpecificityOrder :
            a < b => FieldWeights[FeedIndex(discoveredServices[i].id)][SpecificityOrder[a]]
                       > FieldWeights[FeedIndex(discoveredServices[i].id)][SpecificityOrder[b]]

\* the weights of the code, in 1/10000
CodedWeights ==
    [Label |-> 9500, ID |-> 9000, UseFor |-> 9000, Title |-> 8500, TCode |-> 8500,
     Entities |-> 8000, Description |-> 6000]

\* C23, amended: the weights of the lexical fields are fixed, the same for every
\* service: label 0.95 > id 0.9 = useFor 0.9 > title 0.85 = tcode 0.85 >
\* entities 0.8 > description 0.6.  A lexical result whose match reason is a
\* full match on a field has the weight of that field as its score, no field
\* that contains the whole query has a greater weight, and of two such fields of
\* equal weight the reason names id rather than useFor, title rather than tcode.
C23_WeightsAsCoded ==
    /\ \A i \in DOMAIN discoveredServices :
          \A n \in FieldNames :
              FieldWeights[FeedIndex(discoveredServices[i].id)][n] = CodedWeights[n]
    /\ (search.pc = "done" /\ search.searchMethod = "pattern") =>
          \A k \in DOMAIN search.scored :
              \A f \in FieldNames :
                  search.scored[k].matchReason = f \o " match" =>
                      LET full == FullMatches[LowerQueryOf[search.queryArg]][
                                      FeedIndex(search.scored[k].id)]
                      IN  /\ f \in full
                          /\ search.scored[k].score = CodedWeights[f]
                          /\ \A g \in full : CodedWeights[g] <= CodedWeights[f]
                          /\ "ID" \in full => f # "UseFor"
                          /\ "Title" \in full => f # "TCode"

\* the title and the useFor text of a service contain the query, its label and
\* its id do not, and the result cites useFor, with score 0.9
C23_Witness ==
    /\ search.pc = "done" /\ search.searchMethod = "pattern"
    /\ \E k \in DOMAIN search.scored :
          /\ search.scored[k].matchReason = "UseFor match"
          /\ search.scored[k].score = 9000
          /\ "Title" \in FullMatches[LowerQueryOf[search.queryArg]][
                            FeedIndex(search.scored[k].id)]

\* the score and the match reason of one field for a query: the whole query in
\* the field, else all the words of a query of several words, else the word of
\* a query of one word
FieldMatch(target, queryLower, queryWords) ==
    IF target.text = "" THEN [score |-> 0, reason |-> ""]
    ELSE IF includes(target.text, queryLower)
    THEN [score |-> target.weight, reason |-> target.name \o " match"]
    ELSE IF Len(queryWords) > 1
    THEN (IF \A w \in DOMAIN queryWords : includes(target.text, queryWords[w])
          THEN [score |-> (target.weight * 9) \div 10, reason |-> target.name \o " (all words)"]
          ELSE [score |-> 0, reason |-> ""])
    ELSE IF Len(queryWords) = 1 /\ includes(target.text, queryWords[1])
    THEN [score |-> (target.weight * 85) \div 100, reason |-> target.name \o " (partial)"]
    ELSE [score |-> 0, reason |-> ""]

\* the matches of the fields of every service of the feed, for every query
FieldMatches ==
    [ql \in QueryLowers |->
        [i \in DOMAIN ParsedFeed |->
            {FieldMatch(searchTargets(ParsedFeed[i])[t], ql, SelectSeq(split(ql), LongWord)) :
                t \in DOMAIN searchTargets(ParsedFeed[i])}]]

\* the maximum of the scores of the fields, for every query and service, and
\* the one of a service for the query of the call
BestScores ==
    [ql \in QueryLowers |->
        [id \in {ParsedFeed[i].id : i \in DOMAIN ParsedFeed} |->
            SetMax({m.score : m \in FieldMatches[ql][FeedIndex(id)]})]]
BestScore(serviceId) == BestScores[LowerQueryOf[search.queryArg]][serviceId]

BusinessRank(item) ==
    << IF FindService(item.id).isPriorityService THEN 0 ELSE 1,
       IF FindService(item.id).tier = 0 THEN 99 ELSE FindService(item.id).tier,
       IF FindService(item.id).priority = 0 THEN 100 ELSE FindService(item.id).priority >>

\* a goes strictly before b: by business rank, then by descending score
Precedes(a, b) ==
    \/ BusinessRank(a)[1] < BusinessRank(b)[1]
    \/ /\ BusinessRank(a)[1] = BusinessRank(b)[1]
       /\ \/ BusinessRank(a)[2] < BusinessRank(b)[2]
          \/ /\ BusinessRank(a)[2] = BusinessRank(b)[2]
             /\ \/ BusinessRank(a)[3] < BusinessRank(b)[3]
                \/ /\ BusinessRank(a)[3] = BusinessRank(b)[3]
                   /\ a.score > b.score

\* a and b are fully tied: neither goes strictly before the other
Tied(a, b) == ~Precedes(a, b) /\ ~Precedes(b, a)

\* the items of q fully tied with x, in their order in q
TiedWith(q, x) ==
    LET InClass(y) == Tied(x, y)
    IN  SelectSeq(q, InClass)

\* C8: the result of every finished search is in business-priority order
\* (priority services, then tier 1, 2, 3, unclassified, then ascending priority
\* score, then descending search score), and fully tied items keep the order
\* the search stage gave them: those of the result are the first of those of
\* scoredServices, in the same order.
C8_BusinessPriorityOrder ==
    search.pc = "done" =>
        /\ \A i, j \in DOMAIN search.limited :
              i < j => ~Precedes(search.limited[j], search.limited[i])
        /\ \A i \in DOMAIN search.limited :
              TiedWith(search.limited, search.limited[i]) =
                 SubSeq(TiedWith(search.scored, search.limited[i]), 1,
                        Len(TiedWith(search.limited, search.limited[i])))

\* a semantic result whose higher-scored hit ranks below a priority service
C8_Witness ==
    /\ search.pc = "done" /\ search.searchMethod = "semantic"
    /\ Len(search.limited) = 2
    /\ search.limited[1].score < search.limited[2].score
    /\ BusinessRank(search.limited[1])[1] < BusinessRank(search.limited[2])[1]

(***************************************************************************)
(* The metadata, operation and resource calls of two sessions, in any      *)
(* order and overlapping, each fetch resolving or rejecting.               *)
(***************************************************************************)
Init ==
    /\ discoveredServices = discoverCatalog(CatalogFeed)
    /\ lastIndex = FreshLastIndex
    /\ classifyLog = << >>
    /\ classifyOut = NoCall
    /\ search = SearchIdle
    /\ startup = "ready"
    /\ sessions = [s \in Sessions |-> "discovered"]
    /\ embeddings = [pc |-> "idle"]
    /\ NoCalls

Next ==
    \/ \E slot \in Slots, registry \in Sessions, serviceId \in ServiceArgs,
          entityName \in EntityArgs :
          InspectBegin(slot, registry, serviceId, entityName)
    \/ \E slot \in Slots, registry \in Sessions, serviceId \in ServiceArgs,
          entityName \in EntityArgs \ {""}, operation \in OperationArgs :
          ActBegin(slot, registry, serviceId, entityName, operation, NoParameters)
    \/ \E slot \in Slots, registry \in Sessions, serviceId \in ServiceArgs :
          ResourceBegin(slot, registry, serviceId)
    \/ \E slot \in Slots : FetchReturn(slot, parseMetadata(call[slot].serviceId))
    \/ \E slot \in Slots, fetchError \in FetchErrors : FetchThrow(slot, fetchError)
    \/ \E slot \in Slots : ActReturn(slot)
    \/ \E slot \in Slots, errorMsg \in ReadErrors : ActThrow(slot, errorMsg)

Spec == Init /\ [][Next]_vars

\* the calls of the two slots are inspect or act calls on the same service, each
\* awaiting the fetchServiceMetadata it invoked
Overlapping(a, b) ==
    /\ a # b
    /\ call[a].pc = "fetching" /\ call[b].pc = "fetching"
    /\ call[a].kind \in {"inspect", "act"} /\ call[b].kind \in {"inspect", "act"}
    /\ call[a].serviceId = call[b].serviceId

\* C1: inspect and act calls on the same service that overlap while its schema
\* is not loaded share one invocation of fetchServiceMetadata: no two of them
\* each await a fetch of their own.
C1_SingleFlight == \A a, b \in Slots : ~Overlapping(a, b)

\* C2: once a fetch of the schema of a service has resolved, no step of any
\* later call on that service invokes fetchServiceMetadata for it again.
C2_NoFetchAfterSuccess ==
    [][\A id \in CatalogIds :
          fetches[id].ok => fetches'[id].invoked = fetches[id].invoked]_vars

\* an inspect or act call of one session has returned its result without a fetch,
\* on a service whose schema was fetched once, by a call of the other session
C2_Witness ==
    \E slot \in Slots :
        /\ call[slot].pc = "done" /\ call[slot].kind \in {"inspect", "act"}
        /\ ~call[slot].fetched /\ ~call[slot].isError
        /\ call[slot].serviceId \in CatalogIds
        /\ fetches[call[slot].serviceId].ok
        /\ fetches[call[slot].serviceId].invoked = 1
        /\ call[slot].serviceId \notin DOMAIN metadataCache[call[slot].registry]

\* the step ends the inspect call of the slot with its fetch rejected
InspectFetchFails(slot) ==
    /\ call[slot].pc = "fetching" /\ call[slot].kind = "inspect"
    /\ call'[slot].pc = "done"
    /\ fetches'[call[slot].serviceId].failed = fetches[call[slot].serviceId].failed + 1

\* the step begins, in the slot, an inspect call with both arguments on a service
\* of the catalog of which a fetch has rejected and none has resolved
InspectAfterFailure(slot) ==
    /\ started' = started + 1
    /\ call'[slot] # call[slot]
    /\ call'[slot].kind = "inspect"
    /\ call'[slot].entityName # ""
    /\ call'[slot].serviceId \in CatalogIds
    /\ fetches[call'[slot].serviceId].failed > 0
    /\ ~fetches[call'[slot].serviceId].ok

\* C3: when the fetch of an inspect call on service S rejects, the call returns
\* an error whose text names S, the step stores nothing in service.metadata nor
\* in any metadataCache, and an inspect of S that follows, no fetch of S having
\* resolved, invokes fetchServiceMetadata again.
C3_FailedFetchNotCached ==
    [][\A slot \in Slots :
          /\ InspectFetchFails(slot) =>
                /\ call'[slot].isError
                /\ includes(call'[slot].text, call[slot].serviceId)
                /\ metadata' = metadata
                /\ metadataCache' = metadataCache
          /\ InspectAfterFailure(slot) =>
                /\ call'[slot].pc = "fetching"
                /\ fetches'[call'[slot].serviceId].invoked =
                      fetches[call'[slot].serviceId].invoked + 1]_vars

\* the fetch of an inspect call rejected, and the inspect that follows awaits
\* the second fetch of the service
C3_Witness ==
    \E slot \in Slots :
        /\ call[slot].pc = "fetching" /\ call[slot].kind = "inspect"
        /\ fetches[call[slot].serviceId].failedBy = "inspect"
        /\ fetches[call[slot].serviceId].failed = 1
        /\ fetches[call[slot].serviceId].invoked = 2
        /\ fetches[call[slot].serviceId].pending = 1
        /\ ~metadata[call[slot].serviceId].loaded
        /\ \A registry \in Sessions :
              call[slot].serviceId \notin DOMAIN metadataCache[registry]

\* the names of the entity types the backend serves for the service
SchemaNames(serviceId) ==
    [i \in DOMAIN UpstreamEntityTypes(serviceId) |-> UpstreamEntityTypes(serviceId)[i].name]

\* the call is a finished get-entity-metadata call on a service of the catalog
\* whose schema was loaded and has no entity type of the name asked for
InspectUnknownEntity(c) ==
    /\ c.pc = "done" /\ c.kind = "inspect"
    /\ c.serviceId \in CatalogIds
    /\ c.entityName # ""
    /\ \A i \in DOMAIN SchemaNames(c.serviceId) : SchemaNames(c.serviceId)[i] # c.entityName
    /\ ~includes(c.text, "Failed to load metadata")

\* C15: get-entity-metadata for a known service and an entity name that is not
\* in its schema returns an error whose text lists, after "Available
\* entities:", exactly the names of the entity types of the fetched schema, in
\* their order.
C15_UnknownEntityListsSchema ==
    \A slot \in Slots :
        InspectUnknownEntity(call[slot]) =>
            /\ call[slot].isError
            /\ call[slot].text =
                  "ERROR: Entity '" \o call[slot].entityName \o "' not found in "
                  \o call[slot].serviceId \o ".\n\nAvailable entities: "
                  \o JoinComma(SchemaNames(call[slot].serviceId))

\* "Item" is asked of the service whose only entity type is CollectionEmail,
\* after the schema was fetched for this call
C15_Witness ==
    \E slot \in Slots :
        /\ InspectUnknownEntity(call[slot])
        /\ call[slot].fetched
        /\ call[slot].serviceId = "ZUI_COLLECTIONS_EMAIL_0001"
        /\ includes(call[slot].text, "Available entities: CollectionEmail")

(***************************************************************************)
(* The calls of two sessions on one service, overlapping, while the        *)
(* backend may serve a revision of the $metadata document of the service   *)
(* (an entity set more) to one fetch and not to another.                   *)
(***************************************************************************)
NextCoherence ==
    \/ \E slot \in Slots, registry \in Sessions, entityName \in {"CollectionEmail", "Attachment"} :
          InspectBegin(slot, registry, "ZUI_COLLECTIONS_EMAIL_0001", entityName)
    \/ \E slot \in Slots, registry \in Sessions :
          ActBegin(slot, registry, "ZUI_COLLECTIONS_EMAIL_0001", "CollectionEmail", "read",
                   NoParameters)
    \/ \E slot \in Slots :
          \E entityTypes \in
                {UpstreamEntityTypes(call[slot].serviceId),
                 Append(UpstreamEntityTypes(call[slot].serviceId),
                        EntityType("Attachment", "Attachments", <<"AttachmentId">>,
                                   TRUE, FALSE, TRUE))} :
             FetchReturn(slot, [loaded |-> TRUE, entityTypes |-> entityTypes])
    \/ \E slot \in Slots, fetchError \in FetchErrors : FetchThrow(slot, fetchError)
    \/ \E slot \in Slots : ActReturn(slot)
    \/ \E slot \in Slots, errorMsg \in ReadErrors : ActThrow(slot, errorMsg)

SpecCoherence == Init /\ [][NextCoherence]_vars

\* C28: for every registry and every service, an entry of the registry's
\* metadataCache for the service means that the metadata of the shared catalog
\* record is loaded and is the schema of that entry, also when several sessions
\* fetch the schema of the service at the same time.
C28_CacheCoherent ==
    \A registry \in Sessions :
        \A serviceId \in DOMAIN metadataCache[registry] :
            /\ metadata[serviceId].loaded
            /\ metadata[serviceId] = metadataCache[registry][serviceId]

(***************************************************************************)
(* The start of the HTTP server.  app.listen accepts requests from the     *)
(* moment its callback begins; the callback awaits discoverCatalog and     *)
(* assigns the result to discoveredServices.  getOrCreateSession hands the *)
(* array discoveredServices names at that moment to the registry of the    *)
(* new session, which keeps it.  A session has no embedding service.       *)
(***************************************************************************)
InitStartup ==
    /\ discoveredServices = << >>
    /\ lastIndex = FreshLastIndex
    /\ classifyLog = << >>
    /\ classifyOut = NoCall
    /\ search = SearchIdle
    /\ startup = "listening"
    /\ sessions = << >>
    /\ embeddings = [pc |-> "idle"]
    /\ NoCalls

NextStartup ==
    \* getOrCreateSession: createMCPServer(discoveredServices, ...)
    \/ \E s \in Sessions :
          /\ s \notin DOMAIN sessions
          /\ sessions' = (s :> (IF startup = "ready" THEN "discovered" ELSE "initial"))
                            @@ sessions
          /\ UNCHANGED <<startup, embeddings, discoveredServices, lastIndex, classifyLog,
                         classifyOut, search, metadata, metadataCache, call, fetches,
                         started>>
    \* discoveredServices = await sapDiscoveryService.discoverCatalog()
    \/ /\ startup = "listening"
       /\ startup' = "ready"
       /\ discoveredServices' = discoverCatalog(CatalogFeed)
       /\ metadata' = [id \in {discoveredServices'[i].id : i \in DOMAIN discoveredServices'}
                          |-> NoMetadata]
       /\ fetches' = [id \in {discoveredServices'[i].id : i \in DOMAIN discoveredServices'}
                         |-> NoFetch]
       /\ UNCHANGED <<sessions, embeddings, lastIndex, classifyLog, classifyOut, search,
                      metadataCache, call, started>>
    \* discover-sap-data of a session, over the catalogServices of its registry
    \/ \E s \in DOMAIN sessions, q \in {Absent, "customer", "zzz"}, l \in LimitArgs :
          /\ started < MaxCalls
          /\ started' = started + 1
          /\ search' = [SearchDone(SearchStarted(q, Absent, l, "absent"),
                                   FromPattern(QueryOf(q), LimitOf(l),
                                               IF sessions[s] = "initial" THEN << >>
                                               ELSE discoveredServices,
                                               QueryOf(q) # "", << >>),
                                   "none", << >>)
                           EXCEPT !.session = s, !.during = startup]
          /\ UNCHANGED <<startup, sessions, embeddings, discoveredServices, lastIndex,
                         classifyLog, classifyOut, metadata, metadataCache, call, fetches>>

SpecStartup == InitStartup /\ [][NextStartup]_vars

\* C29: once discoverCatalog has completed with a catalog that is not empty, a
\* search of any session lists services of that catalog, also a search of a
\* session that was created while discovery was still pending.
C29_SessionsServeCatalog ==
    (/\ startup = "ready" /\ discoveredServices # << >>
     /\ search.pc = "done" /\ search.during = "ready") =>
        /\ search.limited # << >>
        /\ \A i \in DOMAIN search.limited : search.limited[i].id \in CatalogIds

(***************************************************************************)
(* The snapshot of the embedding index.  indexEntities first tries the     *)
(* snapshot file (loadCache) and otherwise embeds every business entity of *)
(* the services into the map it already has and writes the file again.     *)
(* A file is absent, unreadable as JSON ("corrupt"), or written with a     *)
(* version, a model, an entity count and the embeddings by id.  Embedding  *)
(* one document is taken to succeed; writing the file may fail, which      *)
(* saveCache only logs.                                                    *)
(***************************************************************************)
MaxIndexCalls == 2

\* SKIP_PATTERNS.some(pattern => pattern.test(entityName))
shouldSkipEntity(entityName) ==
    \/ 0 \in Occurrences(entityName, "VL_", 0)                              \* /^VL_/
    \/ 0 \in Occurrences(entityName, "I_", 0)                               \* /^I_/
    \/ 0 \in Occurrences(entityName, "SAP__", 0)                            \* /^SAP__/
    \/ 0 \in Occurrences(entityName, "P_", 0)                               \* /^P_/
    \/ (Len(entityName) - 10) \in Occurrences(entityName, "Parameters", 0)  \* /Parameters$/
    \/ 0 \in Occurrences(entityName, "_", 0)                                \* /^_/
    \/ includes(entityName, "DraftAdministrativeData")

\* currentServices.reduce(...): the business entities of the services that
\* carry metadata, counted
expectedCount(currentServices) ==
    Cardinality({p \in UNION {{<<s, e>> : e \in DOMAIN currentServices[s].metadata.entityTypes}
                                 : s \in DOMAIN currentServices} :
                    ~shouldSkipEntity(currentServices[p[1]].metadata.entityTypes[p[2]].name)})

\* loadCache(currentServices): TRUE when the snapshot is taken as the index
loadCache(file, currentServices) ==
    LET scaled == (expectedCount(currentServices) * 5) \div 100   \* Math.floor(n * 0.05)
        tolerance == IF scaled > 10 THEN scaled ELSE 10            \* Math.max(10, ...)
        difference == IF file.entityCount >= expectedCount(currentServices)
                      THEN file.entityCount - expectedCount(currentServices)
                      ELSE expectedCount(currentServices) - file.entityCount
    IN  /\ file.state = "written"                  \* existsSync, JSON.parse does not throw
        /\ file.version = "1.0"                    \* CACHE_VERSION
        /\ file.model = "Xenova/all-MiniLM-L6-v2"  \* MODEL_NAME
        /\ difference <= tolerance

InitIndex ==
    /\ discoveredServices = << >>
    /\ lastIndex = FreshLastIndex
    /\ classifyLog = << >>
    /\ classifyOut = NoCall
    /\ search = SearchIdle
    /\ startup = "listening"
    /\ sessions = << >>
    /\ NoCalls
    /\ LET Sizes == {0, 2, 20, 30, 240, 250}
           \* a service of n business entities (without metadata when n = 0)
           \* and a service of entities that are never embedded
           Candidates(n) ==
               << [id |-> "ZFAR_ITEMS_SRV",
                   metadata |-> [loaded |-> n > 0,
                                 entityTypes |-> [k \in 1..n |-> [name |-> "Item" \o ToString(k)]]]],
                  [id |-> "ZFAR_HELP_SRV",
                   metadata |-> [loaded |-> TRUE,
                                 entityTypes |-> << [name |-> "VL_Help"], [name |-> "I_Customer"],
                                                    [name |-> "SAP__Currencies"], [name |-> "P_Run"],
                                                    [name |-> "ItemParameters"], [name |-> "_Internal"],
                                                    [name |-> "ItemDraftAdministrativeData"] >>]] >>
           NoFile == [state |-> "absent", version |-> "", model |-> "", entityCount |-> 0,
                      embeddings |-> {}]
       IN  \E services \in {Candidates(n) : n \in Sizes},
              file \in {NoFile, [NoFile EXCEPT !.state = "corrupt"]}
                         \cup {[state |-> "written", version |-> v, model |-> m, entityCount |-> n,
                                embeddings |-> {"ZFAR_ITEMS_SRV::Item" \o ToString(k) : k \in 1..n}]
                                  : v \in {"1.0", "0.9"},
                                    m \in {"Xenova/all-MiniLM-L6-v2", "Xenova/paraphrase-MiniLM-L3-v2"},
                                    n \in Sizes},
              \* the map may already hold the service embeddings of indexServicesWithHints
              index \in {{}, {"ZFAR_ITEMS_SRV"}} :
              embeddings = [pc |-> "idle", index |-> index, file |-> file, services |-> services,
                            forceReindex |-> FALSE, snapshot |-> NoFile, before |-> {},
                            loaded |-> FALSE, calls |-> 0]

NextIndex ==
    \* indexEntities(services, forceReindex) up to the return of loadCache
    \/ \E forceReindex \in BOOLEAN :
          /\ embeddings.pc \in {"idle", "done"}
          /\ embeddings.calls < MaxIndexCalls
          /\ LET loaded == ~forceReindex /\ loadCache(embeddings.file, embeddings.services)
             IN  embeddings' = [embeddings EXCEPT
                                   !.calls = @ + 1,
                                   !.forceReindex = forceReindex,
                                   !.snapshot = embeddings.file,
                                   !.before = embeddings.index,
                                   !.loaded = loaded,
                                   !.pc = IF loaded THEN "done" ELSE "rebuilding",
                                   !.index = IF loaded THEN embeddings.file.embeddings ELSE @]
          /\ UNCHANGED <<startup, sessions, discoveredServices, lastIndex, classifyLog,
                         classifyOut, search, metadata, metadataCache, call, fetches, started>>
    \* the loop over the services, then saveCache
    \/ \E saved \in BOOLEAN :
          /\ embeddings.pc = "rebuilding"
          /\ LET services == embeddings.services
                 index == embeddings.index \cup
                          {services[p[1]].id \o "::" \o services[p[1]].metadata.entityTypes[p[2]].name
                              : p \in {q \in UNION {{<<s, e>> : e \in DOMAIN services[s].metadata.entityTypes}
                                                       : s \in DOMAIN services} :
                                          ~shouldSkipEntity(services[q[1]].metadata.entityTypes[q[2]].name)}}
             IN  embeddings' = [embeddings EXCEPT
                                   !.pc = "done",
                                   !.index = index,
                                   !.file = IF saved
                                            THEN [state |-> "written", version |-> "1.0",
                                                  model |-> "Xenova/all-MiniLM-L6-v2",
                                                  entityCount |-> Cardinality(index),
                                                  embeddings |-> index]
                                            ELSE @]
          /\ UNCHANGED <<startup, sessions, discoveredServices, lastIndex, classifyLog,
                         classifyOut, search, metadata, metadataCache, call, fetches, started>>

SpecIndex == InitIndex /\ [][NextIndex]_vars

\* the entity count of the snapshot is within 5% of the count of the current
\* business entities
WithinDrift(file, services) ==
    LET expected == expectedCount(services)
        difference == IF file.entityCount >= expected THEN file.entityCount - expected
                      ELSE expected - file.entityCount
    IN  difference * 100 <= 5 * expected

\* C26: a snapshot is loaded into the index only if its model and version are
\* the current ones and its corpus is within 5% of the current candidates; a
\* snapshot of another model or version, or one further away than 5%, is a miss:
\* the index stays as it was until the rebuild, and the rebuild embeds every
\* current business entity.
C26_SnapshotTrust ==
    embeddings.pc \in {"rebuilding", "done"} =>
       /\ embeddings.loaded =>
             /\ embeddings.snapshot.state = "written"
             /\ embeddings.snapshot.version = "1.0"
             /\ embeddings.snapshot.model = "Xenova/all-MiniLM-L6-v2"
             /\ WithinDrift(embeddings.snapshot, embeddings.services)
       /\ (/\ embeddings.snapshot.state = "written"
           /\ \/ embeddings.snapshot.version # "1.0"
              \/ embeddings.snapshot.model # "Xenova/all-MiniLM-L6-v2"
              \/ ~WithinDrift(embeddings.snapshot, embeddings.services)) =>
             /\ ~embeddings.loaded
             /\ embeddings.pc = "rebuilding" => embeddings.index = embeddings.before

(***************************************************************************)
(* The operations of one session, one call at a time, with every operation *)
(* and parameters object a client may send.  From the lazy load on, the    *)
(* handler of execute-sap-operation runs without interruption up to the    *)
(* await of the method of sapClient, so calls that overlap add nothing.    *)
(***************************************************************************)
MaxActCalls == 2

\* args.parameters as a client may send it
ParameterArgs == {
    NoParameters,
    Object(<< <<"CompanyCode", "1000">>, <<"AccountingDocument", "42">> >>),
    Object(<< <<"AccountingDocument", "42">>, <<"Amount", "10">>, <<"CompanyCode", "1000">> >>),
    Object(<< <<"Amount", "10">>, <<"AccountingDocument", "42">> >>),
    Object(<< <<"Amount", "10">> >>),
    Object(<< <<"Customer", "C1">>, <<"Name", "Bob">> >>) }

NextAct ==
    \/ \E serviceId \in ServiceArgs, entityName \in {"Item", "Customer", ""} :
          started < MaxActCalls /\ InspectBegin(1, 1, serviceId, entityName)
    \/ \E serviceId \in ServiceArgs, entityName \in {"Item", "Customer"},
          operation \in {"read", "Read-Single", "create", "UPDATE", "delete", "purge"},
          parameters \in ParameterArgs :
          started < MaxActCalls
             /\ ActBegin(1, 1, serviceId, entityName, operation, parameters)
    \/ FetchReturn(1, parseMetadata(call[1].serviceId))
    \/ \E fetchError \in FetchErrors : FetchThrow(1, fetchError)
    \/ ActReturn(1)
    \/ \E errorMsg \in ReadErrors : ActThrow(1, errorMsg)

SpecAct == Init /\ [][NextAct]_vars

\* the call is an execute-sap-operation call with a valid operation on an
\* entity type the backend declares for a service of the catalog
ActOnDeclared(c) ==
    /\ c.kind = "act"
    /\ c.operation \in validOps
    /\ c.serviceId \in CatalogIds
    /\ \E i \in DOMAIN UpstreamEntityTypes(c.serviceId) :
          UpstreamEntityTypes(c.serviceId)[i].name = c.entityName

\* the entity type the backend declares under the name the call gives
Declared(c) ==
    UpstreamEntityTypes(c.serviceId)[
        CHOOSE i \in DOMAIN UpstreamEntityTypes(c.serviceId) :
            UpstreamEntityTypes(c.serviceId)[i].name = c.entityName]

\* the capability flag of the operation of the call is false
Gated(c) ==
    /\ ActOnDeclared(c)
    /\ \/ c.operation = "create" /\ ~Declared(c).creatable
       \/ c.operation = "update" /\ ~Declared(c).updatable
       \/ c.operation = "delete" /\ ~Declared(c).deletable

\* the call never awaited a method of sapClient and, once over, is an error
FailsWithoutUpstream(c) ==
    /\ c.pc # "executing"
    /\ c.upstream.fn = "none"
    /\ c.pc = "done" => c.isError /\ ~c.thrown

\* C16: create, update or delete on an entity whose creatable, updatable or
\* deletable flag is false returns an error and calls no method of sapClient,
\* whatever the parameters are.
C16_CapabilityGate ==
    Gated(call[1]) => FailsWithoutUpstream(call[1])

\* a create on the entity that is not creatable, with parameters, has returned
\* the error after the schema was loaded
C16_Witness ==
    /\ Gated(call[1])
    /\ call[1].pc = "done"
    /\ call[1].operation = "create"
    /\ call[1].parameters # << >>
    /\ metadata[call[1].serviceId].loaded
    /\ includes(call[1].text, "is not creatable")

\* the declared key properties that are not in the parameters of the call
MissingKeys(c) ==
    LET Missing(key) == \A i \in DOMAIN c.parameters : c.parameters[i][1] # key
    IN  SelectSeq(Declared(c).keys, Missing)

\* a key-addressed operation on a declared entity whose schema is loaded, with
\* a declared key property missing from the parameters
KeyMissing(c) ==
    /\ ActOnDeclared(c)
    /\ c.operation \in {"read-single", "update", "delete"}
    /\ c.pc \in {"executing", "done"}
    /\ metadata[c.serviceId].loaded
    /\ MissingKeys(c) # << >>

\* C17 as claimed: read-single, update or delete with a declared key property
\* missing from the parameters fails with an error that names every missing
\* key property, and calls no method of sapClient.
C17_NamesAllMissingKeys ==
    KeyMissing(call[1]) =>
        /\ FailsWithoutUpstream(call[1])
        /\ \A i \in DOMAIN MissingKeys(call[1]) :
              includes(call[1].text, MissingKeys(call[1])[i])

\* C17, amended: read-single, update or delete with a declared key property
\* missing from the parameters fails with an error and calls no method of
\* sapClient; when the entity allows the operation the error is "Missing key:"
\* with the first missing key property in declared order, and only that one;
\* when it does not, the error is the one of the capability.
C17_NamesFirstMissingKey ==
    KeyMissing(call[1]) =>
        /\ FailsWithoutUpstream(call[1])
        /\ call[1].text =
              IF Gated(call[1])
              THEN "[LEVEL 3 - ERROR] Entity '" \o call[1].entityName \o "' is not "
                   \o (IF call[1].operation = "update" THEN "updatable" ELSE "deletable")
                   \o "\n\n"
              ELSE "[LEVEL 3 - ERROR] Missing key: " \o MissingKeys(call[1])[1] \o "\n\n"

\* an update of the updatable entity with both key properties missing
C17_Witness ==
    /\ KeyMissing(call[1])
    /\ call[1].pc = "done"
    /\ call[1].operation = "update"
    /\ ~Gated(call[1])
    /\ Len(MissingKeys(call[1])) = 2

\* a key-addressed operation on an entity with several key properties awaits
\* its method of sapClient
CompositeKeyed(c) ==
    /\ ActOnDeclared(c)
    /\ c.operation \in {"read-single", "update", "delete"}
    /\ c.pc = "executing"
    /\ Len(Declared(c).keys) > 1

\* the value of the property of the name in the arguments of the call
ArgValue(c, name) ==
    c.args.props[CHOOSE i \in DOMAIN c.args.props : c.args.props[i][1] = name][2]

\* C18: the key of an entity with several key properties is one name='value'
\* pair for each declared key property, in declared order, joined by ",",
\* whatever the order of the properties of parameters.
C18_CompositeKeyInDeclaredOrder ==
    CompositeKeyed(call[1]) =>
        /\ \A i \in DOMAIN Declared(call[1]).keys :
              In(Declared(call[1]).keys[i], call[1].args.props)
        /\ call[1].upstream.key =
              JoinKeyParts([i \in DOMAIN Declared(call[1]).keys |->
                  Declared(call[1]).keys[i] \o "='"
                  \o ArgValue(call[1], Declared(call[1]).keys[i]) \o "'"])

\* the parameters give the second declared key property first
C18_Witness ==
    /\ CompositeKeyed(call[1])
    /\ call[1].args.props[1][1] = Declared(call[1]).keys[2]
    /\ call[1].upstream.key = "CompanyCode='1000',AccountingDocument='42'"

\* the names of the properties of an object
Names(props) == {props[i][1] : i \in DOMAIN props}
KeyNames(c) == {Declared(c).keys[i] : i \in DOMAIN Declared(c).keys}

\* C19: the body sent by an update has none of the declared key properties and
\* has every other property of parameters, with its value, in the order of
\* parameters; the parameters object is as the caller passed it.
C19_UpdateStripsKeys ==
    (ActOnDeclared(call[1]) /\ call[1].operation = "update" /\ call[1].pc = "executing")
        => /\ call[1].upstream.fn = "updateEntity"
           /\ Names(call[1].upstream.data) \cap KeyNames(call[1]) = {}
           /\ LET NonKey(prop) == prop[1] \notin KeyNames(call[1])
              IN  call[1].upstream.data = SelectSeq(call[1].args.props, NonKey)
           /\ call[1].parameters = call[1].args.props

\* an update whose parameters carry the key properties and another one
C19_Witness ==
    /\ ActOnDeclared(call[1]) /\ call[1].operation = "update"
    /\ call[1].pc = "executing"
    /\ KeyNames(call[1]) \subseteq Names(call[1].parameters)
    /\ call[1].upstream.data = << <<"Amount", "10">> >>

\* what went wrong in a finished call, from its arguments and its text
Failed(c) ==
    \/ c.serviceId \notin CatalogIds
    \/ c.kind = "inspect" /\ c.entityName = ""
    \/ c.kind = "act" /\ c.operation \notin validOps
    \/ c.serviceId \in CatalogIds
         /\ \A i \in DOMAIN UpstreamEntityTypes(c.serviceId) :
               UpstreamEntityTypes(c.serviceId)[i].name # c.entityName
    \/ Gated(c)
    \/ KeyMissing(c)
    \/ \E e \in FetchErrors \cup ReadErrors : includes(c.text, e)

\* C20: get-entity-metadata and execute-sap-operation never throw to their
\* caller; a call in which the service or the entity is unknown, the operation
\* invalid, the capability missing, a key missing, the schema fetch or the
\* upstream call failed returns a result with isError, and only such a call.
C20_ErrorsAreResults ==
    call[1].kind \in {"inspect", "act"} =>
        /\ ~call[1].thrown
        /\ call[1].pc = "done" => (call[1].isError <=> Failed(call[1]))
        /\ call[1].pc = "done" /\ call[1].isError => call[1].text # ""

\* an execute-sap-operation call whose schema fetch was rejected
C20_Witness ==
    /\ call[1].kind = "act" /\ call[1].pc = "done"
    /\ call[1].fetched
    /\ call[1].isError
    /\ \E e \in FetchErrors : includes(call[1].text, e)

\* the call is a finished call with a service id that is not in the catalog,
\* past the checks that come before the lookup of the service
UnknownService(c) ==
    /\ c.pc = "done" /\ c.kind \in {"inspect", "act"}
    /\ c.serviceId \notin CatalogIds
    /\ c.kind = "inspect" => c.serviceId # "" /\ c.entityName # ""
    /\ c.kind = "act" => c.operation \in validOps

\* the call is a finished call on a service of the catalog whose schema was
\* loaded and has no entity type of the name asked for
UnknownEntity(c) ==
    \/ InspectUnknownEntity(c)
    \/ /\ c.pc = "done" /\ c.kind = "act" /\ c.operation \in validOps
       /\ c.serviceId \in CatalogIds
       /\ metadata[c.serviceId].loaded
       /\ \A i \in DOMAIN SchemaNames(c.serviceId) :
             SchemaNames(c.serviceId)[i] # c.entityName

\* C21: every failure of get-entity-metadata and execute-sap-operation says how
\* to go on: for an unknown service id the text lists the ids of the catalog,
\* for an unknown entity name it lists the entity names of the schema (in
\* execute-sap-operation as in get-entity-metadata), for an invalid operation it
\* lists the valid operations, and for a blocked create, update or delete it
\* names the capability that is missing.
C21_ActionableErrors ==
    /\ UnknownService(call[1]) =>
          /\ call[1].isError
          /\ \A id \in CatalogIds : includes(call[1].text, id)
    /\ UnknownEntity(call[1]) =>
          /\ call[1].isError
          /\ \A i \in DOMAIN SchemaNames(call[1].serviceId) :
                includes(call[1].text, SchemaNames(call[1].serviceId)[i])
    /\ (call[1].pc = "done" /\ call[1].kind = "act" /\ call[1].operation \notin validOps) =>
          /\ call[1].isError
          /\ \A op \in validOps : includes(call[1].text, op)
    /\ (call[1].pc = "done" /\ Gated(call[1])) =>
          /\ call[1].isError
          /\ includes(call[1].text,
                      IF call[1].operation = "create" THEN "creatable"
                      ELSE IF call[1].operation = "update" THEN "updatable"
                      ELSE "deletable")

\* C30: read-single, update and delete on an entity with several key
\* properties address the entity as EntitySet(k1='v1',k2='v2'): the URL of the
\* request is the entity set followed by the composed key predicate in
\* parentheses, with no further quotes around the predicate.
C30_CompositeKeyUrl ==
    CompositeKeyed(call[1]) =>
        call[1].upstream.url =
            Declared(call[1]).entitySet \o "("
            \o JoinKeyParts([i \in DOMAIN Declared(call[1]).keys |->
                   Declared(call[1]).keys[i] \o "='"
                   \o ArgValue(call[1], Declared(call[1]).keys[i]) \o "'"])
            \o ")"

(***************************************************************************)
(* The classifier as a state machine: classifyService is called on pairs   *)
(* of the catalog feed, in any order, any pair any number of times; the    *)
(* pattern objects (and their lastIndex) live as long as the process.      *)
(***************************************************************************)
MaxClassifyCalls == 3

\* (ID, Title) pairs a catalog feed may carry
ClassifyInputs == {
    <<"ZFAR_CUSTOMER_LINE_ITEMS_0001", "Customer Line Items">>,
    <<"zfar_customer_line_items_0001", "Display History">>,
    <<"RAR_BILLING_SRV", "FAR_ Receivables Billing">>,
    <<"rar_far_collection", "Collections">>,
    <<"ZFAR_BALANCES_V2_SRV_0001", "Customer Balances">>,
    <<"ZFAR_AR_OVP_SRV_0001", "AR Overview">>,
    <<"ZSD_CUSTOMER_INVOICES_MANAGE_0001", "Manage Customer Invoices">>,
    <<"ZSD_CUSTOMER_INVOICES_CREATE_0001", "Create Receivable Invoices">>,
    <<"ZFAC_DUNNING_LIST_CDS", "Dunning Notices">>,
    <<"ZFAR_BILLING_DISPLAY_MANAGE", "Billing Documents">>,
    <<"ZAPI_BUSINESS_PARTNER_0001", "Business Partner">>,
    <<"ZUI_COLLECTIONS_EMAIL_0001", "Collections Email">>,
    <<"ZMY_SERVICE", "Trade Receivables Aging">> }

\* the state after one call of classifyService(serviceId, title) returned r
Classified(serviceId, title, r) ==
    /\ lastIndex' = r.li
    /\ classifyOut' = [n |-> classifyOut.n + 1, serviceId |-> serviceId,
                       title |-> title, c |-> r.c]
    /\ classifyLog' =
         IF <<serviceId, title>> \in DOMAIN classifyLog THEN classifyLog
         ELSE (<<serviceId, title>> :> r.c) @@ classifyLog

\* one call of classifyService(serviceId, title)
Classify(serviceId, title) ==
    /\ classifyOut.n < MaxClassifyCalls
    /\ Classified(serviceId, title, classifyService(serviceId, title, lastIndex))
    /\ UNCHANGED <<startup, sessions, embeddings, discoveredServices, search, metadata, metadataCache, call, fetches, started>>

InitClassify ==
    /\ discoveredServices = << >>
    /\ lastIndex = FreshLastIndex
    /\ classifyLog = << >>
    /\ classifyOut = NoCall
    /\ search = SearchIdle
    /\ startup = "listening"
    /\ sessions = << >>
    /\ embeddings = [pc |-> "idle"]
    /\ NoCalls

NextClassify == \E in \in ClassifyInputs : Classify(in[1], in[2])

SpecClassify == InitClassify /\ [][NextClassify]_vars

Domains == {DOMAIN_CONFIGS[d].name : d \in DOMAIN DOMAIN_CONFIGS}

\* C9: classifyService is total and deterministic: every call returns a
\* well-formed classification, and a call returns what the first call with the
\* same (serviceId, title) returned, whatever was classified in between.
C9_TotalDeterministic ==
    classifyOut.n > 0 =>
        /\ classifyOut.c.domain \in Domains \cup {NoDomain}
        /\ classifyOut.c.tier \in 0..3
        /\ classifyOut.c.priority \in {PRIORITY_SERVICE, TIER_1, TIER_2, TIER_3, UNCLASSIFIED}
        /\ classifyOut.c.isPriorityService \in BOOLEAN
        /\ <<classifyOut.serviceId, classifyOut.title>> \in DOMAIN classifyLog
        /\ classifyOut.c = classifyLog[<<classifyOut.serviceId, classifyOut.title>>]

\* a pair is classified a second time, after another pair's classification
C9_Witness ==
    /\ classifyOut.n = 3
    /\ Cardinality(DOMAIN classifyLog) = 2
    /\ classifyOut.c.domain = "AR"

\* the domains whose exclude patterns match the id
ExcludingDomains(serviceId) ==
    {DOMAIN_CONFIGS[d].name : d \in
        {e \in DOMAIN DOMAIN_CONFIGS :
            matchesAny(serviceId, DOMAIN_CONFIGS[e].excludePatterns, FreshLastIndex).hit}}

\* the domains one of whose inclusion patterns matches the id or the title
IncludingDomains(serviceId, title) ==
    {DOMAIN_CONFIGS[d].name : d \in
        {e \in DOMAIN DOMAIN_CONFIGS :
            \/ matchesAny(serviceId, DOMAIN_CONFIGS[e].prefixes, FreshLastIndex).hit
            \/ matchesAny(title, DOMAIN_CONFIGS[e].prefixes, FreshLastIndex).hit}}

\* C10: exclusion dominates inclusion: a service id that matches an exclude
\* pattern of a domain is never classified into that domain.
C10_ExclusionDominates ==
    classifyOut.n > 0 =>
        classifyOut.c.domain \notin ExcludingDomains(classifyOut.serviceId)

\* an id excluded from AR whose id or title matches an AR inclusion pattern
C10_Witness ==
    /\ classifyOut.n > 0
    /\ "AR" \in ExcludingDomains(classifyOut.serviceId)
    /\ "AR" \in IncludingDomains(classifyOut.serviceId, classifyOut.title)
    /\ classifyOut.c.domain = "SD"

(***************************************************************************)
(* Domain selection, priority services and tiers                           *)
(***************************************************************************)
\* the places in DOMAIN_CONFIGS of the domains that do not exclude the id and
\* one of whose inclusion patterns matches the id or the title
Eligible(serviceId, title) ==
    {d \in DOMAIN DOMAIN_CONFIGS :
        /\ DOMAIN_CONFIGS[d].name \notin ExcludingDomains(serviceId)
        /\ DOMAIN_CONFIGS[d].name \in IncludingDomains(serviceId, title)}

\* C11: the assigned domain is the first configured domain (AR, SD, FI) that
\* does not exclude the id and includes the id or the title, even when a later
\* domain is eligible too; with no eligible domain the result is
\* {domain: null, tier: 0, priority: 100, isPriorityService: false}.
C11_FirstMatchInOrder ==
    classifyOut.n > 0 =>
        IF Eligible(classifyOut.serviceId, classifyOut.title) = {}
        THEN classifyOut.c = [domain |-> NoDomain, tier |-> 0, priority |-> 100,
                              isPriorityService |-> FALSE]
        ELSE classifyOut.c.domain =
                DOMAIN_CONFIGS[SetMin(Eligible(classifyOut.serviceId, classifyOut.title))].name

\* a service that AR and a later domain both include is classified AR
C11_Witness ==
    /\ classifyOut.n > 0
    /\ Cardinality(Eligible(classifyOut.serviceId, classifyOut.title)) = 2
    /\ 1 \in Eligible(classifyOut.serviceId, classifyOut.title)
    /\ classifyOut.c.domain = "AR"

\* the configuration of the domain a classification names
ConfigOf(domain) == DOMAIN_CONFIGS[CHOOSE d \in DOMAIN DOMAIN_CONFIGS :
                                      DOMAIN_CONFIGS[d].name = domain]

\* the id is, up to case, an entry of the priority list of the domain
ListedIn(serviceId, domain) ==
    \E i \in DOMAIN ConfigOf(domain).priorityServices :
        toLowerCase(ConfigOf(domain).priorityServices[i]) = toLowerCase(serviceId)

\* C12: an id that equals, case-insensitively, an entry of the priority list
\* of the domain it is classified into gets tier 1, priority 1 and
\* isPriorityService, whatever tier keywords the id and the title carry; and
\* ("ZFAR_CUSTOMER_LINE_ITEMS_0001", "Customer Line Items") is AR, 1, 1, true.
C12_PriorityListWins ==
    classifyOut.n > 0 =>
        /\ (/\ classifyOut.c.domain # NoDomain
            /\ ListedIn(classifyOut.serviceId, classifyOut.c.domain))
              => /\ classifyOut.c.tier = 1
                 /\ classifyOut.c.priority = 1
                 /\ classifyOut.c.isPriorityService
        /\ (/\ classifyOut.serviceId = "ZFAR_CUSTOMER_LINE_ITEMS_0001"
            /\ classifyOut.title = "Customer Line Items")
              => classifyOut.c = [domain |-> "AR", tier |-> 1, priority |-> 1,
                                  isPriorityService |-> TRUE]

\* a listed id in another case, with tier-2 keywords only in its title
C12_Witness ==
    /\ classifyOut.n > 0
    /\ classifyOut.serviceId = "zfar_customer_line_items_0001"
    /\ classifyOut.title = "Display History"
    /\ classifyOut.c.isPriorityService

\* one of the keyword patterns matches "id title"
KeywordHit(serviceId, title, patterns) ==
    \E i \in DOMAIN patterns :
        RegexEnds(patterns[i], toUpperCase(serviceId \o " " \o title), 0) # {}

\* the tier the keyword groups of the domain give, tier 1 first
KeywordTier(serviceId, title, domain) ==
    IF KeywordHit(serviceId, title, ConfigOf(domain).tier1Keywords) THEN 1
    ELSE IF KeywordHit(serviceId, title, ConfigOf(domain).tier2Keywords) THEN 2
    ELSE IF KeywordHit(serviceId, title, ConfigOf(domain).tier3Keywords) THEN 3
    ELSE 1

\* C13: a service of a matched domain that is not on its priority list has
\* the tier of the first of the tier-1, tier-2, tier-3 keyword groups that
\* matches "id title", tier 1 when none does, and the priority score of that
\* tier's band: 10, 20 or 30.
C13_TierByKeywordOrder ==
    (/\ classifyOut.n > 0
     /\ classifyOut.c.domain # NoDomain
     /\ ~ListedIn(classifyOut.serviceId, classifyOut.c.domain))
        => /\ classifyOut.c.tier =
                KeywordTier(classifyOut.serviceId, classifyOut.title, classifyOut.c.domain)
           /\ classifyOut.c.priority = 10 * classifyOut.c.tier
           /\ ~classifyOut.c.isPriorityService

\* a service of a matched domain that no keyword of any tier matches
C13_Witness ==
    /\ classifyOut.n > 0
    /\ classifyOut.c.domain = "AR"
    /\ ~ListedIn(classifyOut.serviceId, "AR")
    /\ \A g \in {"tier1Keywords", "tier2Keywords", "tier3Keywords"} :
          ~KeywordHit(classifyOut.serviceId, classifyOut.title, AR_CONFIG[g])
    /\ classifyOut.c.tier = 1

\* the ids of the priority lists of all domains, in upper case
PriorityIds ==
    UNION {{toUpperCase(DOMAIN_CONFIGS[d].priorityServices[i]) :
               i \in DOMAIN DOMAIN_CONFIGS[d].priorityServices} : d \in DOMAIN DOMAIN_CONFIGS}

\* C14: an id on the priority list of any domain is classified as a priority
\* service (isPriorityService, tier 1, priority 1) whatever its title.
C14_ListedAlwaysPriority ==
    (classifyOut.n > 0 /\ toUpperCase(classifyOut.serviceId) \in PriorityIds)
        => /\ classifyOut.c.isPriorityService
           /\ classifyOut.c.tier = 1
           /\ classifyOut.c.priority = 1

\* the ids of the feed that match an exclude pattern of a configured domain
ExcludedFeedIds ==
    {CatalogFeed[i].ID : i \in
        {j \in DOMAIN CatalogFeed : ExcludingDomains(toUpperCase(CatalogFeed[j].ID)) # {}}}

\* C27: no service whose id matches an exclude pattern of a configured domain is
\* in the catalog discoverCatalog returned, whatever domain the classifier gave
\* it, so none is found by the lookup of get-entity-metadata and
\* execute-sap-operation and none is in the result of a search, also when the
\* semantic stage returns a hit on it.
C27_ExcludedNotInCatalog ==
    /\ ExcludedFeedIds \cap CatalogIds = {}
    /\ \A i \in DOMAIN search.limited : search.limited[i].id \notin ExcludedFeedIds

\* the feed has an id excluded from AR that the classifier tags with another
\* domain through its title; the semantic stage returned a hit on it and a hit
\* on a service of the catalog, and the result lists the second alone
C27_Witness ==
    /\ "RAR_BILLING_SRV" \in ExcludedFeedIds
    /\ classifyService("RAR_BILLING_SRV", "FAR_ Receivables Billing", FreshLastIndex).c.domain
          \notin {"AR", NoDomain}
    /\ search.pc = "done" /\ search.searchMethod = "semantic"
    /\ \E i \in DOMAIN search.hits : search.hits[i].serviceId = "RAR_BILLING_SRV"
    /\ Len(search.limited) = 1

====
